---- MODULE Spec2Model ----
(***************************************************************************)
(* A model of DataTable (src/src/storage/data_table.cpp): the row-wise     *)
(* SegmentTree of VersionChunks, the per-column SegmentTrees of            *)
(* ColumnSegments, the write paths Append / Delete / Update with their     *)
(* constraint and index handling, and the scan cursor.  The collaborators  *)
(* whose code is outside the source files (VersionChunk's version chains,  *)
(* the transaction manager, the index capability, the vector primitives)   *)
(* are modelled from their contracts.                                      *)
(***************************************************************************)
EXTENDS Integers, Sequences, FiniteSets, TLC

VARIABLES
    storage_tree,   \* DataTable::storage_tree: the sequence of VersionChunks
    columns,        \* DataTable::columns: per column, the sequence of ColumnSegments
    statistics,     \* DataTable::statistics: per column min / max / has_null
    indexes,        \* DataTable::indexes: per index, its entries
    cardinality,    \* DataTable::cardinality
    table,          \* the TableCatalogEntry handed to every call
    transactions,   \* the transaction manager's transactions
    clock,          \* the transaction manager's timestamp counter
    writes,         \* the number of Append, Delete and Update calls made so far
    outcome,        \* what the last call did: operation, transaction, result
    scan,           \* the TableScanState of the scan in progress
    threads,        \* per thread: where it stands in its call, and its locals
    locks,          \* storage_tree.node_lock and the chunk locks held
    events,         \* the Events of the executor: their counters and parents
    scheduler,      \* TaskScheduler: per event, its tasks waiting for a thread
    workers         \* per thread of the scheduler, the stack of its calls

\* the variables of the table, and those of the executor's events
storage == <<storage_tree, columns, statistics, indexes, cardinality, table,
             transactions, clock, writes, outcome, scan, threads, locks>>
executor == <<events, scheduler, workers>>

vars == <<storage, executor>>

(***************************************************************************)
(* Sizes.  The storage constants are scaled down; the model's bounds cap   *)
(* the number of rows, transactions and distinct values.                   *)
(***************************************************************************)
STORAGE_CHUNK_SIZE == 2
BLOCK_SIZE == 4
MaxRows == 3
MaxWrites == 2
MaxLoad == 2
MaxAppend == 2
MaxTxns == 2
TRANSACTION_ID_START == 100

NullValue == 0 - 1
\* the values of the catalog's columns: the CHECK fails on 0 and passes on 1
Values == {0, 1}
TxnIds == 1..MaxTxns

Min(a, b) == IF a < b THEN a ELSE b
Max(a, b) == IF a > b THEN a ELSE b
Range(s) == {s[k] : k \in 1..Len(s)}

\* the table's column types, and GetTypeIdSize of each
types == <<"TINYINT", "SMALLINT">>
NumCols == Len(types)
GetTypeIdSize(t) == IF t = "TINYINT" THEN 1 ELSE 2

(***************************************************************************)
(* Catalog entries: the bound constraints a table can carry.               *)
(***************************************************************************)
NotNull(c) == [type |-> "NOT_NULL", index |-> c, keys |-> {}]
Check(cs) == [type |-> "CHECK", index |-> 0, keys |-> cs]
Unique(ks) == [type |-> "UNIQUE", index |-> 0, keys |-> ks]
ForeignKey == [type |-> "FOREIGN_KEY", index |-> 0, keys |-> {}]

\* ndebug: the build has its assertions compiled out.  The one assertion the
\* tables can fail is that of a UNIQUE constraint on its number of keys, so
\* both builds are kept for the tables with such a constraint over several
\* columns and one build for the others
Catalogs ==
    { catalog \in
        { [columns |-> NumCols, bound_constraints |-> cs, indexes |-> ix, ndebug |-> nd] :
            cs \in { <<>>, <<NotNull(1), Check({2}), Unique({1})>>, <<ForeignKey>>,
                     <<Unique({1, 2})>>, <<Check({1, 2})>> },
            ix \in { <<>>, <<[column |-> 1, unique |-> TRUE],
                             [column |-> 2, unique |-> TRUE]>> },
            nd \in BOOLEAN } :
        catalog.ndebug
            \/ \E k \in 1..Len(catalog.bound_constraints) :
                  /\ catalog.bound_constraints[k].type = "UNIQUE"
                  /\ Cardinality(catalog.bound_constraints[k].keys) > 1 }


\* a DataChunk: one vector per column, all of the same length
ChunkSize(chunk) == Len(chunk[1])
ColumnCount(chunk) == Len(chunk)

\* the rows the callers append; a chunk of a wrong shape has one column only
InputRows == { <<0, 0>>, <<0, 1>>, <<1, 0>>, <<1, 1>>, <<NullValue, 1>> }

\* the DataChunk that holds the rows, one vector per column
ChunkOf(rows) ==
    <<[k \in 1..Len(rows) |-> rows[k][1]], [k \in 1..Len(rows) |-> rows[k][2]]>>

\* the empty chunk, the chunks of one row and of two rows, a one-column chunk
InputChunks ==
    {ChunkOf(<<>>)} \cup {ChunkOf(<<r>>) : r \in InputRows}
        \cup {ChunkOf(<<r, q>>) : r \in InputRows, q \in InputRows}
        \cup { << <<0>> >> }

\* the values the transactions write when what matters is who wrote them:
\* every transaction writes its own mark, the loading transaction the mark 0
Mark(t) == t

MarkChunk(t, n) == <<[k \in 1..n |-> Mark(t)], [k \in 1..n |-> Mark(t)]>>

MarkUpdates(t, column_ids, n) == [i \in 1..Len(column_ids) |-> [k \in 1..n |-> Mark(t)]]

(***************************************************************************)
(* ColumnSegment, VersionChunk and the transaction's version nodes.        *)
(***************************************************************************)
ColumnSegment(start) == [start |-> start, count |-> 0, offset |-> 0, data |-> <<>>]

VersionChunk(start, pointers) ==
    [start |-> start, count |-> 0, columns |-> pointers,
     version |-> <<>>, deleted |-> <<>>, owner |-> <<>>]

TransactionId(t) == TRANSACTION_ID_START + t

VersionInfo(version_number, flag, tuple_data) ==
    [version_number |-> version_number, flag |-> flag, tuple_data |-> tuple_data]

\* a pointer that takes the segment's byte offset for its element count
ColumnPointerByteOffset(segment) == segment.offset

\* line 45
ColumnPointerOffset(segment) == segment.count

\* DataTable::AppendVersionChunk: the new chunk's column pointers are taken
\* from the tail segment of every column
AppendVersionChunk(tree, cols, start) ==
    LET pointers == [i \in 1..NumCols |->
                        [segment |-> Len(cols[i]),
                         offset |-> ColumnPointerOffset(cols[i][Len(cols[i])])]]
    IN  Append(tree, VersionChunk(start, pointers))

\* a copy that takes no account of the room left in the segment
ElementsToCopyAll(start_position, type_size, count) == count

\* DataTable::AppendVector, line 63
ElementsToCopy(start_position, type_size, count) ==
    Min((BLOCK_SIZE - start_position) \div type_size, count)

\* a new segment that starts where the full one starts
NextSegmentStartAtStart(segment) == segment.start

\* line 74
NextSegmentStart(segment) == segment.start + segment.count

RECURSIVE AppendVector(_, _, _, _, _)
AppendVector(tree, column_index, data, offset, count) ==
    LET segment == tree[Len(tree)]
        type_size == GetTypeIdSize(types[column_index])
        start_position == segment.offset
        elements_to_copy == ElementsToCopy(start_position, type_size, count)
        copied == [segment EXCEPT
                     !.data = @ \o SubSeq(data, offset + 1, offset + elements_to_copy),
                     !.count = @ + elements_to_copy,
                     !.offset = @ + elements_to_copy * type_size]
        tree1 == IF elements_to_copy > 0
                 THEN [tree EXCEPT ![Len(tree)] = copied]
                 ELSE tree
        offset1 == IF elements_to_copy > 0 THEN offset + elements_to_copy ELSE offset
    IN  IF elements_to_copy < count
        THEN AppendVector(Append(tree1, ColumnSegment(NextSegmentStart(tree1[Len(tree1)]))),
                          column_index, data, offset1, count - elements_to_copy)
        ELSE tree1

(***************************************************************************)
(* Constraint verification on Append.                                      *)
(***************************************************************************)
HasNull(vector) == NullValue \in Range(vector)
VectorUnique(vector) == \A a, b \in 1..Len(vector) : vector[a] = vector[b] => a = b

\* the CHECK expression of the catalog: every bound column is non-zero;
\* a NULL operand gives NULL, which passes
CheckPasses(keys, data, size) ==
    \A r \in 1..size :
        (\E c \in keys : data[c][r] = NullValue) \/ (\A c \in keys : data[c][r] # 0)

VerifyNotNullConstraint(vector) ==
    IF HasNull(vector) THEN "ConstraintException" ELSE "ok"

VerifyCheckConstraint(keys, data, size) ==
    IF CheckPasses(keys, data, size) THEN "ok" ELSE "ConstraintException"

\* line 112
KeysAsserted(keys) == Cardinality(keys) = 1

\* lines 110-119: the assertion on the number of keys stops a build that has
\* assertions; a build without them checks every key column on its own
VerifyUniqueConstraint(tbl, keys, data) ==
    IF ~tbl.ndebug /\ ~KeysAsserted(keys) THEN "AssertionFailure"
    ELSE IF \A key \in keys : VectorUnique(data[key]) THEN "ok"
    ELSE "ConstraintException"

VerifyAppendConstraint(tbl, constraint, chunk) ==
    CASE constraint.type = "NOT_NULL" -> VerifyNotNullConstraint(chunk[constraint.index])
      [] constraint.type = "CHECK" -> VerifyCheckConstraint(constraint.keys, chunk, ChunkSize(chunk))
      [] constraint.type = "UNIQUE" -> VerifyUniqueConstraint(tbl, constraint.keys, chunk)
      [] OTHER -> "NotImplementedException"

RECURSIVE VerifyAppendConstraints(_, _)
VerifyAppendConstraints(tbl, chunk) ==
    IF tbl.bound_constraints = <<>> THEN "ok"
    ELSE LET r == VerifyAppendConstraint(tbl, Head(tbl.bound_constraints), chunk)
         IN  IF r # "ok" THEN r
             ELSE VerifyAppendConstraints([tbl EXCEPT !.bound_constraints = Tail(@)], chunk)

(***************************************************************************)
(* The index capability: a unique index over one column, its entries the  *)
(* pairs <<key, row id>>.  Append refuses (and changes nothing) when a key *)
(* is already present or occurs twice in the chunk.                        *)
(***************************************************************************)
GenerateSequence(row_start, count) == [k \in 1..count |-> row_start + k - 1]

IndexKeys(index, chunk, row_identifiers) ==
    { <<chunk[index.column][k], row_identifiers[k]>> : k \in 1..Len(row_identifiers) }

IndexAppendSucceeds(index, chunk, row_identifiers) ==
    \/ ~index.unique
    \/ /\ VectorUnique(chunk[index.column])
          /\ \A e \in index.entries : \A k \in 1..Len(row_identifiers) :
             e[1] # chunk[index.column][k]

IndexAppend(index, chunk, row_identifiers) ==
    [index EXCEPT !.entries = @ \cup IndexKeys(index, chunk, row_identifiers)]

IndexDelete(index, chunk, row_identifiers) ==
    [index EXCEPT !.entries = @ \ IndexKeys(index, chunk, row_identifiers)]

\* DataTable::AppendToIndexes: the first index whose Append fails, or 0
RECURSIVE FailedIndex(_, _, _, _)
FailedIndex(ixs, i, chunk, row_identifiers) ==
    IF i > Len(ixs) THEN 0
    ELSE IF ~IndexAppendSucceeds(ixs[i], chunk, row_identifiers) THEN i
    ELSE FailedIndex(ixs, i + 1, chunk, row_identifiers)

\* the indexes whose appended entries are removed again after a failure
\* a failure that leaves the indexes appended to so far as they are
NoIndexRepaired(failed_index) == {}

\* lines 163-170: the indexes before the failing one get the rows deleted
RepairedIndexes(failed_index) == 1..(failed_index - 1)

AppendToIndexes(ixs, chunk, row_start) ==
    LET row_identifiers == GenerateSequence(row_start, ChunkSize(chunk))
        failed_index == FailedIndex(ixs, 1, chunk, row_identifiers)
        appended == [i \in 1..Len(ixs) |->
                        IF failed_index = 0 \/ i < failed_index
                        THEN IndexAppend(ixs[i], chunk, row_identifiers)
                        ELSE ixs[i]]
        repaired == [i \in 1..Len(ixs) |->
                        IF i \in RepairedIndexes(failed_index)
                        THEN IndexDelete(appended[i], chunk, row_identifiers)
                        ELSE appended[i]]
    IN  IF Len(ixs) = 0 THEN [result |-> "ok", indexes |-> ixs, failed_index |-> 0]
        ELSE IF failed_index # 0
        THEN [result |-> "ConstraintException", indexes |-> repaired,
              failed_index |-> failed_index]
        ELSE [result |-> "ok", indexes |-> appended, failed_index |-> 0]

(***************************************************************************)
(* ColumnStatistics::Update: running min / max / has_null of a column.     *)
(***************************************************************************)
\* no value seen yet: min and max are unset
EmptyStatistics == [has_null |-> FALSE, min |-> NullValue, max |-> NullValue]

RECURSIVE StatisticsUpdate(_, _)
StatisticsUpdate(stats, vector) ==
    IF vector = <<>> THEN stats
    ELSE LET v == Head(vector)
             s == IF v = NullValue
                  THEN [stats EXCEPT !.has_null = TRUE]
                  ELSE [stats EXCEPT !.min = IF @ = NullValue THEN v ELSE Min(@, v),
                                     !.max = IF @ = NullValue THEN v ELSE Max(@, v)]
         IN  StatisticsUpdate(s, Tail(vector))

\* statistics that forget what was recorded before the chunk
StatisticsOfChunk(stats, chunk) ==
    [i \in 1..NumCols |-> StatisticsUpdate(EmptyStatistics, chunk[i])]

\* lines 206-208
AppendStatistics(stats, chunk) ==
    [i \in 1..NumCols |-> StatisticsUpdate(stats[i], chunk[i])]

(***************************************************************************)
(* DataTable::Append.                                                      *)
(***************************************************************************)
\* VersionChunk::PushDeletedEntries: n version slots at the chunk's tail,
\* owned by the appending transaction and marked as newly inserted (owner:
\* the transaction whose undo buffer the slot was chained into)
PushDeletedEntries(chunk, transaction_id, n) ==
    [chunk EXCEPT
       !.version = @ \o [k \in 1..n |-> <<VersionInfo(transaction_id, "INSERT_TUPLE", <<>>)>>],
       !.deleted = @ \o [k \in 1..n |-> FALSE],
       !.owner = @ \o [k \in 1..n |-> transaction_id]]

\* an Append that reserves the slots without a version node
UnversionedEntries(chunk, transaction_id, n) ==
    [chunk EXCEPT
       !.version = @ \o [k \in 1..n |-> <<>>],
       !.deleted = @ \o [k \in 1..n |-> FALSE],
       !.owner = @ \o [k \in 1..n |-> transaction_id]]

\* line 217
AppendedEntries(chunk, transaction_id, n) == PushDeletedEntries(chunk, transaction_id, n)

\* a loop that puts every remaining row into the tail chunk
ToCopyAll(last_chunk, remainder) == remainder

\* line 214
ToCopy(last_chunk, remainder) == Min(STORAGE_CHUNK_SIZE - last_chunk.count, remainder)

\* a new chunk that starts where the tail starts, not where it ends
NewChunkStartAtTail(last_chunk) == last_chunk.start

NewChunkStart(last_chunk) == last_chunk.start + last_chunk.count

\* one iteration of the loop of lines 213-230 on the chunk last_chunk of the
\* tree: fill it, and allocate the next chunk when rows remain
AppendIteration(tree, cols, last_chunk, chunk, transaction_id, offset, remainder) ==
    LET to_copy == ToCopy(tree[last_chunk], remainder)
        pushed == AppendedEntries(tree[last_chunk], transaction_id, to_copy)
        cols1 == IF to_copy > 0
                 THEN [i \in 1..NumCols |->
                          AppendVector(cols[i], i, chunk[i], offset, to_copy)]
                 ELSE cols
        tree1 == IF to_copy > 0
                 THEN [tree EXCEPT ![last_chunk] = [pushed EXCEPT !.count = @ + to_copy]]
                 ELSE tree
        spill == remainder - to_copy > 0
    IN  [storage_tree |-> IF spill
                          THEN AppendVersionChunk(tree1, cols1,
                                                  NewChunkStart(tree1[last_chunk]))
                          ELSE tree1,
         columns |-> cols1,
         last_chunk |-> IF spill THEN Len(tree1) + 1 ELSE last_chunk,
         offset |-> offset + to_copy,
         remainder |-> remainder - to_copy]

\* the loop of lines 213-230
RECURSIVE AppendLoop(_, _, _, _, _, _, _)
AppendLoop(tree, cols, last_chunk, chunk, transaction_id, offset, remainder) ==
    IF remainder = 0 THEN [storage_tree |-> tree, columns |-> cols]
    ELSE LET it == AppendIteration(tree, cols, last_chunk, chunk, transaction_id,
                                   offset, remainder)
         IN  AppendLoop(it.storage_tree, it.columns, it.last_chunk, chunk,
                        transaction_id, it.offset, it.remainder)

\* the first row id taken from the tail's start alone
RowStartOfTail(last_chunk) == last_chunk.start

RowStart(last_chunk) == last_chunk.start + last_chunk.count

\* the table's row count after a successful Append of n rows
CardinalityAfterAppend(card, n) == card + n

Unchanged(result) ==
    [result |-> result, row_start |-> 0, detail |-> 0,
     storage_tree |-> storage_tree, columns |-> columns, statistics |-> statistics,
     indexes |-> indexes, cardinality |-> cardinality]

\* an Append that updates the statistics before it appends to the indexes
IndexFailureAfterStatistics(ix, row_start, stats) ==
    [result |-> ix.result, row_start |-> row_start, detail |-> ix.failed_index,
     storage_tree |-> storage_tree, columns |-> columns, statistics |-> stats,
     indexes |-> ix.indexes, cardinality |-> cardinality]

\* lines 203-208: AppendToIndexes throws before the statistics are touched
IndexFailure(ix, row_start, stats) ==
    [Unchanged(ix.result) EXCEPT !.indexes = ix.indexes, !.row_start = row_start,
                                 !.detail = ix.failed_index]

\* the whole of DataTable::Append on the current table, as a record of the
\* result and the fields it leaves behind
AppendCall(t, chunk) ==
    LET last_chunk == storage_tree[Len(storage_tree)]
        row_start == RowStart(last_chunk)
        ix == AppendToIndexes(indexes, chunk, row_start)
        stats == AppendStatistics(statistics, chunk)
        done == AppendLoop(storage_tree, columns, Len(storage_tree), chunk,
                           TransactionId(t), 0, ChunkSize(chunk))
    IN  IF ChunkSize(chunk) = 0 THEN Unchanged("empty")
        ELSE IF ColumnCount(chunk) # table.columns THEN Unchanged("CatalogException")
        ELSE IF VerifyAppendConstraints(table, chunk) # "ok"
        THEN Unchanged(VerifyAppendConstraints(table, chunk))
        ELSE IF ix.result # "ok"
        THEN IndexFailure(ix, row_start, stats)
        ELSE [result |-> "ok", row_start |-> row_start, detail |-> 0,
              storage_tree |-> done.storage_tree, columns |-> done.columns,
              statistics |-> stats, indexes |-> ix.indexes,
              cardinality |-> CardinalityAfterAppend(cardinality, ChunkSize(chunk))]

\* the record of a call: its result, for Append the first row id and the
\* number of rows, and for a failure the index or the batch position it is at
Outcome(op, t, result, row_start, count, detail) ==
    [op |-> op, txn |-> t, result |-> result, row_start |-> row_start,
     count |-> count, detail |-> detail]

Install(r) ==
    /\ storage_tree' = r.storage_tree
    /\ columns' = r.columns
    /\ statistics' = r.statistics
    /\ indexes' = r.indexes
    /\ cardinality' = r.cardinality

DoAppend(t, chunk) ==
    /\ transactions[t].state = "active"
    /\ cardinality + ChunkSize(chunk) <= MaxRows
    /\ LET r == AppendCall(t, chunk)
       IN  /\ Install(r)
           /\ outcome' = Outcome("Append", t, r.result, r.row_start, ChunkSize(chunk), r.detail)
    /\ writes' = writes + 1
    /\ UNCHANGED <<table, executor, transactions, clock, scan, threads, locks>>

(***************************************************************************)
(* Row access through a chunk: SegmentTree::GetSegment, the chunk's column *)
(* pointers (VersionChunk::GetPointerToRow) and its version slots.         *)
(***************************************************************************)
\* the chunk whose range [start, start + count) holds the row
GetChunk(tree, row_number) ==
    CHOOSE c \in 1..Len(tree) :
        /\ tree[c].start <= row_number
        /\ \/ c = Len(tree)
           \/ row_number < tree[c + 1].start

\* from the pointer (segment, offset), delta elements further on
RECURSIVE Locate(_, _, _, _)
Locate(segments, segment, offset, delta) ==
    IF offset + delta < segments[segment].count \/ segment = Len(segments)
    THEN [segment |-> segment, element |-> offset + delta + 1]
    ELSE Locate(segments, segment + 1, 0, delta - (segments[segment].count - offset))

GetPointerToRow(tree, cols, c, column, row_id) ==
    Locate(cols[column], tree[c].columns[column].segment,
           tree[c].columns[column].offset, row_id - tree[c].start)

BaseValue(tree, cols, c, column, row_id) ==
    LET p == GetPointerToRow(tree, cols, c, column, row_id)
    IN  cols[column][p.segment].data[p.element]

BaseTuple(tree, cols, c, row_id) ==
    [column \in 1..NumCols |-> BaseValue(tree, cols, c, column, row_id)]

WriteValue(tree, cols, c, column, row_id, value) ==
    LET p == GetPointerToRow(tree, cols, c, column, row_id)
    IN  [cols EXCEPT ![column][p.segment].data[p.element] = value]

RECURSIVE WriteTuple(_, _, _, _, _, _)
WriteTuple(tree, cols, c, row_id, tuple, column) ==
    IF column > NumCols THEN cols
    ELSE WriteTuple(tree, WriteValue(tree, cols, c, column, row_id, tuple[column]),
                    c, row_id, tuple, column + 1)

GetVersionInfo(chunk, id) ==
    IF chunk.version[id + 1] = <<>> THEN "null" ELSE "node"

\* a check that takes every head version of another writer for a conflict
ConflictOnAnyVersion(chunk, id, transaction_id) ==
    /\ GetVersionInfo(chunk, id) # "null"
    /\ Head(chunk.version[id + 1]).version_number # transaction_id

\* lines 264-270 and 429-435: the head version belongs to another
\* transaction that has not committed
Conflict(chunk, id, transaction_id) ==
    /\ GetVersionInfo(chunk, id) # "null"
    /\ Head(chunk.version[id + 1]).version_number >= TRANSACTION_ID_START
    /\ Head(chunk.version[id + 1]).version_number # transaction_id

\* VersionChunk::PushTuple: the current tuple goes into the undo buffer and
\* its node becomes the head of the row's version chain
PushTuple(tree, cols, c, transaction_id, flag, id) ==
    [tree EXCEPT ![c].version[id + 1] =
        <<VersionInfo(transaction_id, flag, BaseTuple(tree, cols, c, tree[c].start + id))>>
            \o @]

SetDeleted(tree, c, id) == [tree EXCEPT ![c].deleted[id + 1] = TRUE]

(***************************************************************************)
(* What a transaction reads: VersionChunk::Scan's visibility rule, applied *)
(* to one row and to the whole table.                                      *)
(***************************************************************************)
\* the version is the transaction's own or was committed before it started
VersionVisible(txns, t, node) ==
    \/ node.version_number = TransactionId(t)
    \/ node.version_number < txns[t].start_time

\* the oldest version of the chain, from position k on, that the transaction
\* must not see: the tuple it undoes is what the transaction reads
RECURSIVE OldestInvisible(_, _, _, _)
OldestInvisible(txns, t, chain, k) ==
    IF k = Len(chain) \/ VersionVisible(txns, t, chain[k + 1]) THEN k
    ELSE OldestInvisible(txns, t, chain, k + 1)

\* the tuple of row id of chunk c as the transaction sees it, <<>> for none
ScanRow(tree, cols, txns, t, c, id) ==
    LET chain == tree[c].version[id + 1]
        node == chain[OldestInvisible(txns, t, chain, 1)]
    IN  IF chain = <<>> \/ VersionVisible(txns, t, Head(chain))
        THEN IF tree[c].deleted[id + 1] THEN <<>>
             ELSE BaseTuple(tree, cols, c, tree[c].start + id)
        ELSE IF node.flag = "INSERT_TUPLE" THEN <<>>
        ELSE node.tuple_data

\* the row ids of the table
RowIds == 0..(cardinality - 1)

\* the rows a scan of the whole table returns to transaction t
ScanRowId(t, row_id) ==
    LET c == GetChunk(storage_tree, row_id)
    IN  ScanRow(storage_tree, columns, transactions, t, c, row_id - storage_tree[c].start)

VisibleRows(t) ==
    { [row_id |-> row_id, tuple |-> ScanRowId(t, row_id)] :
        row_id \in { r \in RowIds : ScanRowId(t, r) # <<>> } }

\* the row ids of a Delete or an Update come out of the transaction's own
\* scan: it sees every row of the batch
Scanned(t, row_identifiers) ==
    \A k \in 1..Len(row_identifiers) : ScanRowId(t, row_identifiers[k]) # <<>>

(***************************************************************************)
(* DataTable::Delete.                                                      *)
(***************************************************************************)
\* one iteration of the loop of lines 258-275 for the row ids[i]
DeleteRow(st, c, transaction_id, ids, i) ==
    LET row_id == ids[i]
        id == row_id - st.storage_tree[c].start
        pushed == PushTuple(st.storage_tree, columns, c, transaction_id, "DELETE_TUPLE", id)
    IN  IF st.result # "ok" THEN st
        ELSE IF Conflict(st.storage_tree[c], id, transaction_id)
        THEN [st EXCEPT !.result = "TransactionException", !.detail = i]
        ELSE [st EXCEPT !.storage_tree = SetDeleted(pushed, c, id)]

RECURSIVE DeleteRows(_, _, _, _, _)
DeleteRows(st, c, transaction_id, ids, i) ==
    IF i > Len(ids) THEN st
    ELSE DeleteRows(DeleteRow(st, c, transaction_id, ids, i), c, transaction_id, ids, i + 1)

DeleteCall(t, row_identifiers) ==
    LET c == GetChunk(storage_tree, row_identifiers[1])
        done == DeleteRows([result |-> "ok", detail |-> 0, storage_tree |-> storage_tree], c,
                           TransactionId(t), row_identifiers, 1)
    IN  IF Len(row_identifiers) = 0 THEN Unchanged("empty")
        ELSE [Unchanged(done.result) EXCEPT !.storage_tree = done.storage_tree,
                                            !.detail = done.detail]

\* the batches a caller hands in: distinct row ids that lie in one chunk
MaxBatch == 2
Batches ==
    { ids \in UNION { [1..n -> RowIds] : n \in 0..MaxBatch } :
        /\ \A a, b \in 1..Len(ids) : ids[a] = ids[b] => a = b
        /\ \A a \in 1..Len(ids) :
              GetChunk(storage_tree, ids[a]) = GetChunk(storage_tree, ids[1]) }

\* the longest version chain the model lets a row grow
MaxChain == 2
ChainsHaveRoom(row_identifiers) ==
    \A k \in 1..Len(row_identifiers) :
        LET c == GetChunk(storage_tree, row_identifiers[k])
        IN  Len(storage_tree[c].version[row_identifiers[k] - storage_tree[c].start + 1])
                < MaxChain

DoDelete(t, row_identifiers) ==
    /\ transactions[t].state = "active"
    /\ Scanned(t, row_identifiers)
    /\ ChainsHaveRoom(row_identifiers)
    /\ LET r == DeleteCall(t, row_identifiers)
       IN  /\ Install(r)
           /\ outcome' = Outcome("Delete", t, r.result, 0, Len(row_identifiers), r.detail)
    /\ writes' = writes + 1
    /\ UNCHANGED <<table, executor, transactions, clock, scan, threads, locks>>

(***************************************************************************)
(* DataTable::Update.                                                      *)
(***************************************************************************)
\* CreateMockChunk (lines 281-291): the update vectors at their catalog
\* positions, the other columns empty
CreateMockChunk(column_ids, chunk) ==
    [column \in 1..NumCols |->
        IF \E i \in 1..Len(column_ids) : column_ids[i] = column
        THEN chunk[CHOOSE i \in 1..Len(column_ids) :
                     /\ column_ids[i] = column
                     /\ \A j \in (i + 1)..Len(column_ids) : column_ids[j] # column]
        ELSE <<>>]

\* CreateMockChunk (lines 293-315): "skip", "NotImplementedException" or "check"
FoundColumns(column_ids, desired_column_ids) ==
    Cardinality({i \in 1..Len(column_ids) : column_ids[i] \in desired_column_ids})

\* a verification that skips a constraint whose columns are not all updated
MockChunkSkipsPartial(column_ids, desired_column_ids) ==
    IF FoundColumns(column_ids, desired_column_ids) # Cardinality(desired_column_ids)
    THEN "skip"
    ELSE "check"

MockChunkFor(column_ids, desired_column_ids) ==
    IF FoundColumns(column_ids, desired_column_ids) = 0 THEN "skip"
    ELSE IF FoundColumns(column_ids, desired_column_ids) # Cardinality(desired_column_ids)
    THEN "NotImplementedException"
    ELSE "check"

VerifyUpdateConstraint(tbl, constraint, chunk, column_ids) ==
    LET size == Len(chunk[1])
        mock == MockChunkFor(column_ids, constraint.keys)
    IN  CASE constraint.type = "NOT_NULL" ->
               IF \E i \in 1..Len(column_ids) : column_ids[i] = constraint.index
               THEN VerifyNotNullConstraint(
                        chunk[CHOOSE i \in 1..Len(column_ids) :
                                /\ column_ids[i] = constraint.index
                                /\ \A j \in 1..(i - 1) : column_ids[j] # constraint.index])
               ELSE "ok"
          [] constraint.type = "CHECK" ->
               IF mock = "check"
               THEN VerifyCheckConstraint(constraint.keys,
                                          CreateMockChunk(column_ids, chunk), size)
               ELSE IF mock = "skip" THEN "ok" ELSE mock
          [] constraint.type = "UNIQUE" ->
               IF mock = "check"
               THEN VerifyUniqueConstraint(tbl, constraint.keys,
                                           CreateMockChunk(column_ids, chunk))
               ELSE IF mock = "skip" THEN "ok" ELSE mock
          [] constraint.type = "FOREIGN_KEY" -> "ok"
          [] OTHER -> "NotImplementedException"

RECURSIVE VerifyUpdateConstraints(_, _, _)
VerifyUpdateConstraints(tbl, chunk, column_ids) ==
    IF tbl.bound_constraints = <<>> THEN "ok"
    ELSE LET r == VerifyUpdateConstraint(tbl, Head(tbl.bound_constraints), chunk, column_ids)
         IN  IF r # "ok" THEN r
             ELSE VerifyUpdateConstraints([tbl EXCEPT !.bound_constraints = Tail(@)],
                                          chunk, column_ids)

\* DataTable::UpdateIndexes
IndexIsUpdated(index, column_ids) == index.column \in Range(column_ids)

RECURSIVE FailedUpdateIndex(_, _, _, _, _)
FailedUpdateIndex(ixs, i, column_ids, mock_chunk, row_identifiers) ==
    IF i > Len(ixs) THEN 0
    ELSE IF /\ IndexIsUpdated(ixs[i], column_ids)
            /\ ~IndexAppendSucceeds(ixs[i], mock_chunk, row_identifiers)
    THEN i
    ELSE FailedUpdateIndex(ixs, i + 1, column_ids, mock_chunk, row_identifiers)

\* a failure that leaves the indexes appended to so far as they are
NoUpdateIndexRepaired(ixs, column_ids, failed_index) == {}

\* lines 383-387: the affected indexes before the failing one get the rows
\* deleted
RepairedUpdateIndexes(ixs, column_ids, failed_index) ==
    { i \in 1..(failed_index - 1) : IndexIsUpdated(ixs[i], column_ids) }

\* the calls UpdateIndexes makes on the indexes, in their order: the loop of
\* lines 369-379, then the loop of lines 383-387
UpdateIndexCalls(ixs, column_ids, failed_index) ==
    LET call(op) == [i \in 1..Len(ixs) |-> [index |-> i, call |-> op]]
    IN  SelectSeq(call("Append"),
                  LAMBDA c : /\ IndexIsUpdated(ixs[c.index], column_ids)
                             /\ (failed_index = 0 \/ c.index <= failed_index))
          \o SelectSeq(call("Delete"),
                       LAMBDA c : c.index \in RepairedUpdateIndexes(ixs, column_ids,
                                                                   failed_index))

UpdateIndexes(ixs, column_ids, updates, row_identifiers) ==
    LET mock_chunk == CreateMockChunk(column_ids, updates)
        failed_index == FailedUpdateIndex(ixs, 1, column_ids, mock_chunk, row_identifiers)
        appended == [i \in 1..Len(ixs) |->
                        IF /\ IndexIsUpdated(ixs[i], column_ids)
                           /\ (failed_index = 0 \/ i < failed_index)
                        THEN IndexAppend(ixs[i], mock_chunk, row_identifiers)
                        ELSE ixs[i]]
        repaired == [i \in 1..Len(ixs) |->
                        IF i \in RepairedUpdateIndexes(ixs, column_ids, failed_index)
                        THEN IndexDelete(appended[i], mock_chunk, row_identifiers)
                        ELSE appended[i]]
        calls == UpdateIndexCalls(ixs, column_ids, failed_index)
    IN  IF Len(ixs) = 0
        THEN [result |-> "ok", indexes |-> ixs, failed_index |-> 0, calls |-> <<>>]
        ELSE IF failed_index # 0
        THEN [result |-> "ConstraintException", indexes |-> repaired,
              failed_index |-> failed_index, calls |-> calls]
        ELSE [result |-> "ok", indexes |-> appended, failed_index |-> 0, calls |-> calls]

\* the conflict pre-check of lines 424-436: the position of the first row
\* whose head version another transaction holds, or 0
RECURSIVE FirstConflict(_, _, _, _)
FirstConflict(chunk, transaction_id, ids, i) ==
    IF i > Len(ids) THEN 0
    ELSE IF Conflict(chunk, ids[i] - chunk.start, transaction_id) THEN i
    ELSE FirstConflict(chunk, transaction_id, ids, i + 1)

\* the rows whose PushTuple has run when the pre-check throws at row i:
\* none, the check is a pass of its own before the first PushTuple
\* a conflict check made row by row, each free row pushed as it is passed
PushedRowByRow(ids, i) == SubSeq(ids, 1, i - 1)

PushedBeforeConflict(ids, i) == <<>>

\* lines 442-446
RECURSIVE PushTuples(_, _, _, _, _, _)
PushTuples(tree, cols, c, transaction_id, ids, i) ==
    IF i > Len(ids) THEN tree
    ELSE PushTuples(PushTuple(tree, cols, c, transaction_id, "UPDATE_TUPLE",
                              ids[i] - tree[c].start),
                    cols, c, transaction_id, ids, i + 1)

\* lines 464-468 for one column: row ids[k] takes the k-th update value
RECURSIVE UpdateColumn(_, _, _, _, _, _, _)
UpdateColumn(tree, cols, c, column_id, ids, vector, k) ==
    IF k > Len(ids) THEN cols
    ELSE UpdateColumn(tree, WriteValue(tree, cols, c, column_id, ids[k], vector[k]),
                      c, column_id, ids, vector, k + 1)

\* lines 449-472
RECURSIVE UpdateColumns(_, _, _, _, _, _, _)
UpdateColumns(tree, cols, stats, c, column_ids, ids_updates, col_idx) ==
    IF col_idx > Len(column_ids) THEN [columns |-> cols, statistics |-> stats]
    ELSE UpdateColumns(tree,
             UpdateColumn(tree, cols, c, column_ids[col_idx], ids_updates.ids,
                          ids_updates.updates[col_idx], 1),
             [stats EXCEPT ![column_ids[col_idx]] =
                 StatisticsUpdate(@, ids_updates.updates[col_idx])],
             c, column_ids, ids_updates, col_idx + 1)

\* pre-images taken from the base table after the update values are in it
BaseAfterWrite(cols, written) == written

\* the loop of lines 442-446 ends before the loop of lines 449-472 begins:
\* PushTuple copies the base table as it is before the first write
BaseAtPush(cols, written) == cols

UpdateCall(t, row_identifiers, column_ids, updates) ==
    LET verified == VerifyUpdateConstraints(table, updates, column_ids)
        c == GetChunk(storage_tree, row_identifiers[1])
        conflict == FirstConflict(storage_tree[c], TransactionId(t), row_identifiers, 1)
        ix == UpdateIndexes(indexes, column_ids, updates, row_identifiers)
        pushed == PushTuples(storage_tree,
                             BaseAtPush(columns,
                                        UpdateColumns(storage_tree, columns, statistics, c,
                                                      column_ids,
                                                      [ids |-> row_identifiers,
                                                       updates |-> updates], 1).columns),
                             c, TransactionId(t), row_identifiers, 1)
        written == UpdateColumns(pushed, columns, statistics, c, column_ids,
                                 [ids |-> row_identifiers, updates |-> updates], 1)
    IN  IF Len(row_identifiers) = 0 THEN Unchanged("empty")
        ELSE IF verified # "ok" THEN Unchanged(verified)
        ELSE IF conflict # 0
        THEN [Unchanged("TransactionException") EXCEPT
                !.detail = conflict,
                !.storage_tree = PushTuples(storage_tree, columns, c, TransactionId(t),
                                            PushedBeforeConflict(row_identifiers, conflict), 1)]
        ELSE IF ix.result # "ok"
        THEN [Unchanged(ix.result) EXCEPT !.indexes = ix.indexes, !.detail = ix.failed_index]
        ELSE [Unchanged("ok") EXCEPT !.storage_tree = pushed, !.indexes = ix.indexes,
                                     !.columns = written.columns,
                                     !.statistics = written.statistics]

\* what the callers update: one or both columns, one value per row
ColumnIdLists == { <<1>>, <<2>>, <<1, 2>> }
UpdateChunks(column_ids, n) ==
    { u \in [1..Len(column_ids) -> [1..n -> Values \cup {NullValue}]] :
        \A i \in 1..Len(column_ids) : column_ids[i] = 2 => ~HasNull(u[i]) }

DoUpdate(t, row_identifiers, column_ids, updates) ==
    /\ transactions[t].state = "active"
    /\ Scanned(t, row_identifiers)
    /\ ChainsHaveRoom(row_identifiers)
    /\ LET r == UpdateCall(t, row_identifiers, column_ids, updates)
       IN  /\ Install(r)
           /\ outcome' = Outcome("Update", t, r.result, 0, Len(row_identifiers), r.detail)
    /\ writes' = writes + 1
    /\ UNCHANGED <<table, executor, transactions, clock, scan, threads, locks>>

(***************************************************************************)
(* The transaction manager: start, commit and rollback.                    *)
(***************************************************************************)
NoTransaction == [state |-> "none", start_time |-> 0, commit_id |-> 0]

StartTransaction(t) ==
    /\ transactions[t].state = "none"
    /\ \A u \in TxnIds : u < t => transactions[u].state # "none"
    /\ transactions' = [transactions EXCEPT
                          ![t] = [state |-> "active", start_time |-> clock, commit_id |-> 0]]
    /\ clock' = clock + 1
    /\ outcome' = Outcome("Start", t, "ok", 0, 0, 0)
    /\ UNCHANGED <<storage_tree, columns, statistics, indexes, cardinality, table, executor, writes,
                   scan, threads, locks>>

\* the version nodes no active or later transaction can need any more are
\* reclaimed: those committed before every active transaction started
LowestActiveStart(txns, now) ==
    IF \E u \in TxnIds : txns[u].state = "active"
    THEN CHOOSE m \in {txns[u].start_time : u \in {x \in TxnIds : txns[x].state = "active"}} :
            \A u \in TxnIds : txns[u].state = "active" => m <= txns[u].start_time
    ELSE now

Reclaim(chain, lowest) ==
    SelectSeq(chain, LAMBDA node : ~(node.version_number < lowest))

ReclaimAll(tree, lowest) ==
    [c \in 1..Len(tree) |->
        [tree[c] EXCEPT !.version = [r \in 1..Len(@) |-> Reclaim(@[r], lowest)]]]

\* commit: every version node of the transaction takes the commit timestamp
CommitChain(chain, transaction_id, commit_id) ==
    [k \in 1..Len(chain) |->
        IF chain[k].version_number = transaction_id
        THEN [chain[k] EXCEPT !.version_number = commit_id]
        ELSE chain[k]]

Commit(t) ==
    LET txns == [transactions EXCEPT ![t].state = "committed", ![t].commit_id = clock,
                                     ![t].start_time = 0]
        committed == [c \in 1..Len(storage_tree) |->
                        [storage_tree[c] EXCEPT
                           !.version = [r \in 1..Len(@) |->
                                           CommitChain(@[r], TransactionId(t), clock)]]]
    IN  /\ transactions[t].state = "active"
        /\ storage_tree' = ReclaimAll(committed, LowestActiveStart(txns, clock + 1))
        /\ transactions' = txns
        /\ clock' = clock + 1
        /\ outcome' = Outcome("Commit", t, "ok", 0, 0, 0)
        /\ UNCHANGED <<columns, statistics, indexes, cardinality, table, executor, writes,
                       scan, threads, locks>>

\* rollback: the transaction's nodes, newest first, are unlinked from the
\* head of every chain: an insert is marked deleted, a delete is unmarked,
\* an update or delete puts the tuple image back
RECURSIVE RollbackRow(_, _, _, _)
RollbackRow(st, c, id, transaction_id) ==
    LET chain == st.storage_tree[c].version[id + 1]
        node == Head(chain)
        unlinked == [st.storage_tree EXCEPT ![c].version[id + 1] = Tail(chain)]
        row_id == st.storage_tree[c].start + id
    IN  IF chain = <<>> \/ node.version_number # transaction_id THEN st
        ELSE IF node.flag = "INSERT_TUPLE"
        THEN RollbackRow([st EXCEPT !.storage_tree =
                                [unlinked EXCEPT ![c].deleted[id + 1] = TRUE]],
                         c, id, transaction_id)
        ELSE RollbackRow(
                 [storage_tree |->
                     IF node.flag = "DELETE_TUPLE"
                     THEN [unlinked EXCEPT ![c].deleted[id + 1] = FALSE]
                     ELSE unlinked,
                  columns |-> WriteTuple(st.storage_tree, st.columns, c, row_id,
                                         node.tuple_data, 1)],
                 c, id, transaction_id)

RECURSIVE RollbackRows(_, _, _)
RollbackRows(st, row_id, transaction_id) ==
    IF row_id >= cardinality THEN st
    ELSE LET c == GetChunk(st.storage_tree, row_id)
         IN  RollbackRows(RollbackRow(st, c, row_id - st.storage_tree[c].start,
                                      transaction_id),
                          row_id + 1, transaction_id)

Rollback(t) ==
    LET txns == [transactions EXCEPT ![t].state = "aborted", ![t].start_time = 0]
        undone == RollbackRows([storage_tree |-> storage_tree, columns |-> columns],
                               0, TransactionId(t))
    IN  /\ transactions[t].state = "active"
        /\ storage_tree' = ReclaimAll(undone.storage_tree, LowestActiveStart(txns, clock))
        /\ columns' = undone.columns
        /\ transactions' = txns
        /\ outcome' = Outcome("Rollback", t, "ok", 0, 0, 0)
        /\ UNCHANGED <<statistics, indexes, cardinality, table, executor, clock, writes,
                       scan, threads, locks>>

(***************************************************************************)
(* The scan cursor: DataTable::InitializeScan and DataTable::Scan, with    *)
(* VersionChunk::Scan reading one vector of a chunk.                       *)
(***************************************************************************)
STANDARD_VECTOR_SIZE == 1

NoScan ==
    [txn |-> 0, chunk |-> 0, last_chunk |-> 0, last_chunk_count |-> 0, offset |-> 0,
     visited |-> {}, result |-> <<>>, returned |-> {}, log |-> <<>>, writes |-> 0]

\* lines 480-491: the cursor starts at the root chunk; the tail chunk and its
\* count are captured (writes: the number of write calls made so far, kept to
\* tell a scan that ran without a writer)
InitializeScan(t) ==
    /\ transactions[t].state = "active"
    /\ scan.txn = 0
    /\ scan' = [NoScan EXCEPT !.txn = t, !.chunk = 1,
                              !.last_chunk = Len(storage_tree),
                              !.last_chunk_count = storage_tree[Len(storage_tree)].count,
                              !.writes = writes]
    /\ outcome' = Outcome("InitializeScan", t, "ok", 0, 0, 0)
    /\ UNCHANGED <<storage_tree, columns, statistics, indexes, cardinality, table, executor,
                   transactions, clock, writes, threads, locks>>

\* the rows among the chunk-local ids first, ..., last that the transaction sees
RECURSIVE ScanVector(_, _, _, _, _, _, _)
ScanVector(tree, cols, txns, t, c, first, last) ==
    IF first > last THEN <<>>
    ELSE LET tuple == ScanRow(tree, cols, txns, t, c, first)
             rest == ScanVector(tree, cols, txns, t, c, first + 1, last)
         IN  IF tuple = <<>> THEN rest
             ELSE <<[row_id |-> tree[c].start + first, tuple |-> tuple]>> \o rest

\* VersionChunk::Scan: the vector number state.offset of chunk c, which ends
\* at the captured count when c is the captured tail chunk
VersionChunkScan(tree, cols, txns, state, c) ==
    LET scan_start == state.offset * STANDARD_VECTOR_SIZE
        end == IF c = state.last_chunk THEN state.last_chunk_count ELSE tree[c].count
        scan_count == Min(STANDARD_VECTOR_SIZE, end - scan_start)
    IN  [rows |-> ScanVector(tree, cols, txns, state.txn, c, scan_start,
                             scan_start + scan_count - 1),
         visited |-> {[chunk |-> c, id |-> id] :
                         id \in scan_start..(scan_start + scan_count - 1)},
         is_last_segment |-> scan_start + scan_count = end]

\* a cursor that has no chunk to move to
NoNextChunk(tree, c) == 0

\* line 509: current_chunk->next
NextChunk(tree, c) == IF c < Len(tree) THEN c + 1 ELSE 0

\* a scan that stops only at the chunk that has no successor
ScanEndsAtTail(tree, state) == state.chunk = Len(tree)

\* line 504
ScanEnds(tree, state) == state.chunk = state.last_chunk

\* a call that returns after every vector it has read
ScanReturnsAlways(rows) == TRUE

\* lines 515-517
ScanReturns(rows) == Len(rows) > 0

\* lines 497-514: one vector of the current chunk is read and the cursor moves
ScanIteration(tree, cols, txns, state) ==
    LET r == VersionChunkScan(tree, cols, txns, state, state.chunk)
        seen == [state EXCEPT !.visited = @ \cup r.visited,
                              !.result = r.rows,
                              !.returned = @ \cup Range(r.rows),
                              !.log = @ \o r.rows]
    IN  IF r.is_last_segment /\ ScanEnds(tree, state)
        THEN [seen EXCEPT !.chunk = 0]
        ELSE IF r.is_last_segment
             THEN [seen EXCEPT !.offset = 0, !.chunk = NextChunk(tree, state.chunk)]
             ELSE [seen EXCEPT !.offset = @ + 1]

\* the loop of lines 496-518
RECURSIVE ScanLoop(_, _, _, _)
ScanLoop(tree, cols, txns, state) ==
    IF state.chunk = 0 THEN state
    ELSE LET moved == ScanIteration(tree, cols, txns, state)
         IN  IF moved.chunk = 0 \/ ScanReturns(moved.result) THEN moved
             ELSE ScanLoop(tree, cols, txns, moved)

\* one call of DataTable::Scan; after the scan is exhausted one more call
\* returns the empty result
Scan(t) ==
    /\ scan.txn = t
    /\ transactions[t].state = "active"
    /\ scan.chunk # 0 \/ scan.result # <<>>
    /\ scan' = ScanLoop(storage_tree, columns, transactions, [scan EXCEPT !.result = <<>>])
    /\ outcome' = Outcome("Scan", t, "ok", 0, Len(scan'.result), 0)
    /\ UNCHANGED <<storage_tree, columns, statistics, indexes, cardinality, table, executor,
                   transactions, clock, writes, threads, locks>>

(***************************************************************************)
(* Threads: DataTable::Append and DataTable::Delete step by step, with     *)
(* storage_tree.node_lock and the chunks' exclusive locks.                 *)
(***************************************************************************)
IdleThread ==
    [pc |-> "idle", n |-> 0, row_start |-> 0, last_chunk |-> 0, offset |-> 0,
     remainder |-> 0, ids |-> <<>>, column_ids |-> <<>>, index |-> 0]

NoLocks == [node_lock |-> 0, held |-> {}, shared |-> {}]

\* an Append that does not wait for the tree's lock
NodeLockIgnored(l) == TRUE

\* line 194: the lock_guard waits until no thread holds node_lock
NodeLockFree(l) == l.node_lock = 0

\* GetExclusiveLock waits until no thread holds the chunk's lock
ChunkLockFree(l, c) == \A h \in l.held \cup l.shared : h.chunk # c

\* lines 176-189: the chunk is not empty, has the table's columns and passes
\* the constraints
AppendVerify(t, chunk) ==
    /\ threads[t].pc = "idle"
    /\ ChunkSize(chunk) > 0
    /\ ColumnCount(chunk) = table.columns
    /\ VerifyAppendConstraints(table, chunk) = "ok"
    /\ threads' = [threads EXCEPT ![t] = [@ EXCEPT !.pc = "verified",
                                                   !.n = ChunkSize(chunk)]]
    /\ UNCHANGED <<storage_tree, columns, statistics, indexes, cardinality, table, executor,
                   transactions, clock, writes, outcome, scan, locks>>

\* lines 194-195: take node_lock and read the tail chunk
AppendLockTree(t) ==
    /\ threads[t].pc = "verified"
    /\ NodeLockFree(locks)
    /\ locks' = [locks EXCEPT !.node_lock = t]
    /\ threads' = [threads EXCEPT ![t] = [@ EXCEPT !.pc = "tree_locked",
                                                   !.last_chunk = Len(storage_tree)]]
    /\ UNCHANGED <<storage_tree, columns, statistics, indexes, cardinality, table, executor,
                   transactions, clock, writes, outcome, scan>>

\* lines 196-212: take the tail chunk's exclusive lock, read row_start,
\* append to the indexes, update the statistics
AppendLockChunk(t) ==
    LET chunk == MarkChunk(t, threads[t].n)
        row_start == RowStart(storage_tree[threads[t].last_chunk])
        ix == AppendToIndexes(indexes, chunk, row_start)
    IN  /\ threads[t].pc = "tree_locked"
        /\ ChunkLockFree(locks, threads[t].last_chunk)
        /\ locks' = [locks EXCEPT
                        !.held = @ \cup {[chunk |-> threads[t].last_chunk, thread |-> t]}]
        /\ ix.result = "ok"
        /\ indexes' = ix.indexes
        /\ statistics' = AppendStatistics(statistics, chunk)
        /\ threads' = [threads EXCEPT ![t] = [@ EXCEPT !.pc = "loop",
                                                       !.row_start = row_start,
                                                       !.offset = 0,
                                                       !.remainder = threads[t].n]]
        /\ UNCHANGED <<storage_tree, columns, cardinality, table, executor, transactions, clock,
                       writes, outcome, scan>>

\* one iteration of the loop of lines 213-230
AppendStep(t) ==
    LET it == AppendIteration(storage_tree, columns, threads[t].last_chunk,
                              MarkChunk(t, threads[t].n), TransactionId(t),
                              threads[t].offset, threads[t].remainder)
    IN  /\ threads[t].pc = "loop"
        /\ threads[t].remainder > 0
        /\ storage_tree' = it.storage_tree
        /\ columns' = it.columns
        /\ threads' = [threads EXCEPT ![t] = [@ EXCEPT !.last_chunk = it.last_chunk,
                                                       !.offset = it.offset,
                                                       !.remainder = it.remainder]]
        /\ UNCHANGED <<statistics, indexes, cardinality, table, executor, transactions, clock,
                       writes, outcome, scan, locks>>

\* a call that returns with its chunk lock still held
ChunkLocksKept(held, t) == held

\* the end of the scope of a chunk lock (lines 234, 276, 475)
ChunkLocksReleased(held, t) == {h \in held : h.thread # t}

\* lines 231-235: the loop is over, both locks are released
AppendReturn(t) ==
    /\ threads[t].pc = "loop"
    /\ threads[t].remainder = 0
    /\ locks' = [node_lock |-> IF locks.node_lock = t THEN 0 ELSE locks.node_lock,
                 held |-> ChunkLocksReleased(locks.held, t),
                 shared |-> locks.shared]
    /\ cardinality' = CardinalityAfterAppend(cardinality, threads[t].n)
    /\ threads' = [threads EXCEPT ![t] = [@ EXCEPT !.pc = "done"]]
    /\ outcome' = Outcome("Append", t, "ok", threads[t].row_start, threads[t].n, 0)
    /\ UNCHANGED <<storage_tree, columns, statistics, indexes, table, executor, transactions,
                   clock, writes, scan>>

\* lines 240-255: find the chunk of the first row id and take its exclusive lock
DeleteLockChunk(t, row_identifiers) ==
    /\ threads[t].pc = "idle"
    /\ Len(row_identifiers) > 0
    /\ Scanned(t, row_identifiers)
    /\ ChainsHaveRoom(row_identifiers)
    /\ ChunkLockFree(locks, GetChunk(storage_tree, row_identifiers[1]))
    /\ locks' = [locks EXCEPT
                    !.held = @ \cup {[chunk |-> GetChunk(storage_tree, row_identifiers[1]),
                                      thread |-> t]}]
    /\ threads' = [threads EXCEPT ![t] = [@ EXCEPT !.pc = "deleting",
                                                   !.ids = row_identifiers]]
    /\ writes' = writes + 1
    /\ UNCHANGED <<storage_tree, columns, statistics, indexes, cardinality, table, executor,
                   transactions, clock, outcome, scan>>

\* lines 258-276: delete the rows and release the lock
DeleteReturn(t) ==
    /\ threads[t].pc = "deleting"
    /\ LET r == DeleteCall(t, threads[t].ids)
       IN  /\ Install(r)
           /\ outcome' = Outcome("Delete", t, r.result, 0, Len(threads[t].ids), r.detail)
    /\ locks' = [locks EXCEPT !.held = ChunkLocksReleased(@, t)]
    /\ threads' = [threads EXCEPT ![t] = IdleThread]
    /\ UNCHANGED <<table, executor, transactions, clock, writes, scan>>

(***************************************************************************)
(* The executor's events: Event::CompleteDependency, Event::Finish,        *)
(* Event::FinishTask and Event::SetTasks, run by the threads of the task   *)
(* scheduler.  A thread is a stack of calls; each action is one step of    *)
(* the call on top of a thread's stack, from one access of an atomic       *)
(* counter to the next.                                                    *)
(***************************************************************************)
MaxEvents == 3
MaxTasks == 2
MaxWorkers == 2

EventIds == 1..MaxEvents
WorkerIds == 1..MaxWorkers

\* lines 27-29, and lines 60-63 for every dependency: the event's parents and
\* the number of its dependencies.  tasks is the number of tasks the event's
\* Schedule hands to SetTasks (none for PipelineFinishEvent, lines 10-11);
\* schedules and finishes count the runs of Schedule and of Finish
Event(parents, total_dependencies, tasks) ==
    [finished_tasks |-> 0, total_tasks |-> 0, finished_dependencies |-> 0,
     total_dependencies |-> total_dependencies, finished |-> FALSE,
     parents |-> parents, tasks |-> tasks, schedules |-> 0, finishes |-> 0]

RECURSIVE Ascending(_)
Ascending(S) ==
    IF S = {} THEN <<>>
    ELSE LET lowest == CHOOSE x \in S : \A y \in S : x <= y
         IN  <<lowest>> \o Ascending(S \ {lowest})

\* the dependency graphs: an event's parents are events made after it
Graphs == { g \in [EventIds -> SUBSET EventIds] : \A e \in EventIds : \A q \in g[e] : q > e }

\* lines 60-63: AddDependency counts the dependency at the parent
TotalDependencies(g, e) == Cardinality({c \in EventIds : e \in g[c]})

\* a call on a thread's stack
Frame(proc, event, pc) ==
    [proc |-> proc, event |-> event, pc |-> pc, index |-> 1, current_tasks |-> 0]

Top(w) == workers[w][Len(workers[w])]
Returned(w) == SubSeq(workers[w], 1, Len(workers[w]) - 1)
Called(w, frame, callee) == [workers[w] EXCEPT ![Len(workers[w])] = frame] \o <<callee>>
Moved(w, frame) == [workers[w] EXCEPT ![Len(workers[w])] = frame]
Running(w, proc, pc) ==
    /\ workers[w] # <<>>
    /\ Top(w).proc = proc
    /\ Top(w).pc = pc

\* the events that wait for no other event
Roots == Ascending({e \in EventIds : events[e].total_dependencies = 0})

\* the executor starts the events that have no dependencies, one by one
ScheduleEvents(w) ==
    /\ Running(w, "ScheduleEvents", "loop")
    /\ workers' = [workers EXCEPT ![w] =
                      IF Top(w).index <= Len(Roots)
                      THEN Called(w, [Top(w) EXCEPT !.index = @ + 1],
                                  Frame("Schedule", Roots[Top(w).index], "begin"))
                      ELSE Returned(w)]
    /\ UNCHANGED <<storage, events, scheduler>>

\* Schedule of the event, and lines 81-85 when it has tasks: total_tasks is set
\* before the first task is handed to the scheduler
Schedule(w) ==
    LET e == Top(w).event
    IN  /\ Running(w, "Schedule", "begin")
        /\ events' = [events EXCEPT ![e].schedules = @ + 1,
                                    ![e].total_tasks =
                                        IF events[e].tasks > 0 THEN events[e].tasks ELSE @]
        /\ workers' = [workers EXCEPT ![w] =
                          IF events[e].tasks > 0
                          THEN Moved(w, [Top(w) EXCEPT !.pc = "tasks", !.index = 1])
                          ELSE Returned(w)]
        /\ UNCHANGED <<storage, scheduler>>

\* lines 86-88: one task is handed to the scheduler
SetTasks(w) ==
    LET e == Top(w).event
    IN  /\ Running(w, "Schedule", "tasks")
        /\ scheduler' = [scheduler EXCEPT ![e] = @ + 1]
        /\ workers' = [workers EXCEPT ![w] =
                          IF Top(w).index < events[e].tasks
                          THEN Moved(w, [Top(w) EXCEPT !.index = @ + 1])
                          ELSE Returned(w)]
        /\ UNCHANGED <<storage, events>>

\* a thread with nothing to do takes a task of event e, runs it and calls
\* FinishTask
ExecuteTask(w, e) ==
    /\ workers[w] = <<>>
    /\ scheduler[e] > 0
    /\ scheduler' = [scheduler EXCEPT ![e] = @ - 1]
    /\ workers' = [workers EXCEPT ![w] = <<Frame("FinishTask", e, "load")>>]
    /\ UNCHANGED <<storage, events>>

\* lines 66-67
FinishTaskLoad(w) ==
    /\ Running(w, "FinishTask", "load")
    /\ workers' = [workers EXCEPT ![w] =
                      Moved(w, [Top(w) EXCEPT !.pc = "increment",
                                              !.current_tasks =
                                                  events[Top(w).event].total_tasks])]
    /\ UNCHANGED <<storage, events, scheduler>>

\* a FinishTask that calls Finish whatever it counted
LastTaskAlways(current_finished, current_tasks) == TRUE

\* line 70
LastTask(current_finished, current_tasks) == current_finished = current_tasks

\* lines 68-72: the atomic increment; the thread that counts the last task
\* calls Finish, the last statement of FinishTask
FinishTaskIncrement(w) ==
    LET e == Top(w).event
        current_finished == events[e].finished_tasks + 1
    IN  /\ Running(w, "FinishTask", "increment")
        /\ events' = [events EXCEPT ![e].finished_tasks = current_finished]
        /\ workers' = [workers EXCEPT ![w] =
                          IF LastTask(current_finished, Top(w).current_tasks)
                          THEN Moved(w, Frame("Finish", e, "begin"))
                          ELSE Returned(w)]
        /\ UNCHANGED <<storage, scheduler>>

\* lines 32-34: the atomic increment
CompleteDependencyIncrement(w) ==
    LET e == Top(w).event
        current_finished == events[e].finished_dependencies + 1
    IN  /\ Running(w, "CompleteDependency", "increment")
        /\ events' = [events EXCEPT ![e].finished_dependencies = current_finished]
        /\ workers' = [workers EXCEPT ![w] =
                          IF current_finished = events[e].total_dependencies
                          THEN Moved(w, [Top(w) EXCEPT !.pc = "schedule"])
                          ELSE Returned(w)]
        /\ UNCHANGED <<storage, scheduler>>

\* lines 36-37
CompleteDependencySchedule(w) ==
    /\ Running(w, "CompleteDependency", "schedule")
    /\ workers' = [workers EXCEPT ![w] =
                      Called(w, [Top(w) EXCEPT !.pc = "check"],
                             Frame("Schedule", Top(w).event, "begin"))]
    /\ UNCHANGED <<storage, events, scheduler>>

\* lines 38-40: Finish is the last statement of CompleteDependency
CompleteDependencyCheck(w) ==
    /\ Running(w, "CompleteDependency", "check")
    /\ workers' = [workers EXCEPT ![w] =
                      IF events[Top(w).event].total_tasks = 0
                      THEN Moved(w, Frame("Finish", Top(w).event, "begin"))
                      ELSE Returned(w)]
    /\ UNCHANGED <<storage, events, scheduler>>

\* lines 45-47
FinishEvent(w) ==
    /\ Running(w, "Finish", "begin")
    /\ events' = [events EXCEPT ![Top(w).event].finishes = @ + 1,
                                ![Top(w).event].finished = TRUE]
    /\ workers' = [workers EXCEPT ![w] = Moved(w, [Top(w) EXCEPT !.pc = "parents"])]
    /\ UNCHANGED <<storage, scheduler>>

\* lines 49-58: CompleteDependency of the next parent, or the return
Finish(w) ==
    LET parents == events[Top(w).event].parents
    IN  /\ Running(w, "Finish", "parents")
        /\ workers' = [workers EXCEPT ![w] =
                          IF Top(w).index <= Len(parents)
                          THEN Called(w, [Top(w) EXCEPT !.index = @ + 1],
                                      Frame("CompleteDependency", parents[Top(w).index],
                                            "increment"))
                          ELSE Returned(w)]
        /\ UNCHANGED <<storage, events, scheduler>>

\* the table's specifications have no events
NoExecutor ==
    /\ events = <<>>
    /\ scheduler = <<>>
    /\ workers = <<>>

(***************************************************************************)
(* The table after construction, and the specification.                    *)
(***************************************************************************)
InitialColumns == [i \in 1..NumCols |-> <<ColumnSegment(0)>>]

(***************************************************************************)
(* Spec: the transactional core.                                           *)
(***************************************************************************)
MarkCatalog ==
    [columns |-> NumCols, bound_constraints |-> <<>>,
     indexes |-> <<[column |-> 1, unique |-> FALSE]>>, ndebug |-> FALSE]

NewIndexes(catalog) ==
    [k \in 1..Len(catalog.indexes) |->
        [column |-> catalog.indexes[k].column, unique |-> catalog.indexes[k].unique,
         entries |-> {}]]

\* the table as the constructor leaves it (lines 19-36)
Constructed(catalog) ==
    [storage_tree |-> AppendVersionChunk(<<>>, InitialColumns, 0),
     columns |-> InitialColumns,
     statistics |-> [i \in 1..NumCols |-> EmptyStatistics],
     indexes |-> NewIndexes(catalog),
     cardinality |-> 0]

\* the table after one earlier transaction appended the chunk and committed
\* with no other transaction running: its version nodes are reclaimed
Loaded(catalog, chunk) ==
    LET new == Constructed(catalog)
        done == AppendLoop(new.storage_tree, new.columns, Len(new.storage_tree), chunk,
                           TransactionId(0), 0, ChunkSize(chunk))
    IN  IF ChunkSize(chunk) = 0 THEN new
        ELSE [storage_tree |-> ReclaimAll(done.storage_tree, TRANSACTION_ID_START + MaxTxns + 1),
              columns |-> done.columns,
              statistics |-> [i \in 1..NumCols |-> StatisticsUpdate(EmptyStatistics, chunk[i])],
              indexes |-> AppendToIndexes(new.indexes, chunk, 0).indexes,
              cardinality |-> CardinalityAfterAppend(0, ChunkSize(chunk))]

InitTable(st, catalog) ==
    /\ scan = NoScan
    /\ threads = [t \in TxnIds |-> IdleThread]
    /\ locks = NoLocks
    /\ table = catalog
    /\ storage_tree = st.storage_tree
    /\ columns = st.columns
    /\ statistics = st.statistics
    /\ indexes = st.indexes
    /\ cardinality = st.cardinality
    /\ writes = 0
    /\ outcome = Outcome("Init", 0, "ok", 0, 0, 0)

Init ==
    /\ NoExecutor
    /\ \E n \in 0..MaxLoad : InitTable(Loaded(MarkCatalog, MarkChunk(0, n)), MarkCatalog)
    /\ transactions = [t \in TxnIds |-> NoTransaction]
    /\ clock = 1

\* the specifications stop after a number of Append, Delete and Update calls
Budget(calls) == writes < calls

Next ==
    \/ \E t \in TxnIds : StartTransaction(t)
    \/ \E t \in TxnIds : Commit(t)
    \/ \E t \in TxnIds : Rollback(t)
    \/ \E t \in TxnIds, n \in 1..MaxAppend :
          Budget(MaxWrites) /\ DoAppend(t, MarkChunk(t, n))
    \/ \E t \in TxnIds, ids \in Batches : Budget(MaxWrites) /\ DoDelete(t, ids)
    \/ \E t \in TxnIds, ids \in Batches, column_ids \in ColumnIdLists :
          Budget(MaxWrites)
              /\ DoUpdate(t, ids, column_ids, MarkUpdates(t, column_ids, Len(ids)))

Spec == Init /\ [][Next]_vars

(***************************************************************************)
(* SpecCatalog: one transaction on a table with constraints and unique     *)
(* indexes, fed chunks that pass and chunks that fail.                     *)
(***************************************************************************)
MaxCalls == 1

\* the table is new, or an earlier transaction has loaded the row <<1, 1>>
LoadChunks == { <<<<>>, <<>>>>, <<<<1>>, <<1>>>> }

InitCatalog ==
    /\ NoExecutor
    /\ \E catalog \in Catalogs, chunk \in LoadChunks :
          /\ ChunkSize(chunk) = 0 \/ VerifyAppendConstraints(catalog, chunk) = "ok"
          /\ InitTable(Loaded(catalog, chunk), catalog)
    /\ transactions = [t \in TxnIds |->
                         IF t = 1 THEN [state |-> "active", start_time |-> 1, commit_id |-> 0]
                         ELSE NoTransaction]
    /\ clock = 2

NextCatalog ==
    \/ \E chunk \in InputChunks : Budget(MaxCalls) /\ DoAppend(1, chunk)
    \/ \E ids \in Batches : Budget(MaxCalls) /\ DoDelete(1, ids)
    \/ \E ids \in Batches, column_ids \in ColumnIdLists :
          \E updates \in UpdateChunks(column_ids, Len(ids)) :
              Budget(MaxCalls) /\ DoUpdate(1, ids, column_ids, updates)

SpecCatalog == InitCatalog /\ [][NextCatalog]_vars

(***************************************************************************)
(* SpecScan: one scan, call by call, while transactions append and commit. *)
(***************************************************************************)
NextScan ==
    \/ \E t \in TxnIds : StartTransaction(t)
    \/ \E t \in TxnIds : Commit(t)
    \/ \E t \in TxnIds, n \in 1..MaxAppend :
          Budget(MaxWrites) /\ DoAppend(t, MarkChunk(t, n))
    \/ \E t \in TxnIds : InitializeScan(t)
    \/ \E t \in TxnIds : Scan(t)

SpecScan == Init /\ [][NextScan]_vars

\* the conditions under which a call of Scan does anything: the guard of Scan
ScanEnabled ==
    /\ scan.txn # 0
    /\ transactions[scan.txn].state = "active"
    /\ scan.chunk # 0 \/ scan.result # <<>>

\* the caller of a scan goes on calling Scan until it gets an empty result:
\* WF_vars(\E t \in TxnIds : Scan(t)), with ENABLED <<\E t \in TxnIds : Scan(t)>>_vars
\* written out as ScanEnabled
SpecScanFair ==
    /\ SpecScan
    /\ \/ []<>(~ScanEnabled)
       \/ []<><<\E t \in TxnIds : Scan(t)>>_vars

(***************************************************************************)
(* SpecConc: every thread runs its own transaction and makes its calls     *)
(* step by step.                                                           *)
(***************************************************************************)
MaxDeletes == 1

InitConc ==
    /\ NoExecutor
    /\ \E n \in 0..MaxLoad : InitTable(Loaded(MarkCatalog, MarkChunk(0, n)), MarkCatalog)
    /\ transactions = [t \in TxnIds |->
                         [state |-> "active", start_time |-> t, commit_id |-> 0]]
    /\ clock = MaxTxns + 1

NextConc ==
    \/ \E t \in TxnIds, n \in 1..MaxAppend : AppendVerify(t, MarkChunk(t, n))
    \/ \E t \in TxnIds : AppendLockTree(t)
    \/ \E t \in TxnIds : AppendLockChunk(t)
    \/ \E t \in TxnIds : AppendStep(t)
    \/ \E t \in TxnIds : AppendReturn(t)
    \/ \E t \in TxnIds, row_id \in RowIds :
          Budget(MaxDeletes) /\ DeleteLockChunk(t, <<row_id>>)
    \/ \E t \in TxnIds : DeleteReturn(t)

SpecConc == InitConc /\ [][NextConc]_vars

(***************************************************************************)
(* SpecLocks: the threads of SpecConc also update, fetch and scan; the     *)
(* readers take the chunks' shared locks.                                  *)
(***************************************************************************)
\* GetSharedLock waits until no thread holds the chunk's exclusive lock
SharedLockFree(l, c) == \A h \in l.held : h.chunk # c

\* lines 392-417: the updates pass the constraints, the chunk of the first row
\* id is found and its exclusive lock taken
UpdateLockChunk(t, row_identifiers, column_ids) ==
    /\ threads[t].pc = "idle"
    /\ Len(row_identifiers) > 0
    /\ Scanned(t, row_identifiers)
    /\ ChainsHaveRoom(row_identifiers)
    /\ VerifyUpdateConstraints(table, MarkUpdates(t, column_ids, Len(row_identifiers)),
                               column_ids) = "ok"
    /\ ChunkLockFree(locks, GetChunk(storage_tree, row_identifiers[1]))
    /\ locks' = [locks EXCEPT
                    !.held = @ \cup {[chunk |-> GetChunk(storage_tree, row_identifiers[1]),
                                      thread |-> t]}]
    /\ threads' = [threads EXCEPT ![t] = [@ EXCEPT !.pc = "updating",
                                                   !.ids = row_identifiers,
                                                   !.column_ids = column_ids]]
    /\ writes' = writes + 1
    /\ UNCHANGED <<storage_tree, columns, statistics, indexes, cardinality, table, executor,
                   transactions, clock, outcome, scan>>

\* lines 419-475: update the rows and release the lock
UpdateReturn(t) ==
    /\ threads[t].pc = "updating"
    /\ LET r == UpdateCall(t, threads[t].ids, threads[t].column_ids,
                           MarkUpdates(t, threads[t].column_ids, Len(threads[t].ids)))
       IN  /\ Install(r)
           /\ outcome' = Outcome("Update", t, r.result, 0, Len(threads[t].ids), r.detail)
    /\ locks' = [locks EXCEPT !.held = ChunkLocksReleased(@, t)]
    /\ threads' = [threads EXCEPT ![t] = IdleThread]
    /\ UNCHANGED <<table, executor, transactions, clock, writes, scan>>

\* line 527: VectorOperations::Sort, the row ids in ascending order
RECURSIVE SortRowIds(_)
SortRowIds(ids) ==
    IF ids = <<>> THEN <<>>
    ELSE LET lowest == CHOOSE k \in 1..Len(ids) : \A j \in 1..Len(ids) : ids[k] <= ids[j]
         IN  <<ids[lowest]>>
                 \o SortRowIds([j \in 1..(Len(ids) - 1) |->
                                   IF j < lowest THEN ids[j] ELSE ids[j + 1]])

\* the row id vectors handed to Fetch: any rows of the table, in any order
FetchBatches ==
    { ids \in UNION { [1..n -> RowIds] : n \in 1..MaxBatch } :
        \A a, b \in 1..Len(ids) : ids[a] = ids[b] => a = b }

\* lines 521-529: Fetch sorts its row ids
FetchSort(t, row_identifiers) ==
    /\ threads[t].pc = "idle"
    /\ threads' = [threads EXCEPT ![t] = [@ EXCEPT !.pc = "fetch",
                                                   !.ids = SortRowIds(row_identifiers),
                                                   !.index = 1]]
    /\ UNCHANGED <<storage_tree, columns, statistics, indexes, cardinality, table, executor,
                   transactions, clock, writes, outcome, scan, locks>>

\* lines 531-533: the chunk of the next row id is found and its shared lock taken
FetchLockChunk(t) ==
    LET chunk == GetChunk(storage_tree, threads[t].ids[threads[t].index])
    IN  /\ threads[t].pc = "fetch"
        /\ SharedLockFree(locks, chunk)
        /\ locks' = [locks EXCEPT !.shared = @ \cup {[chunk |-> chunk, thread |-> t]}]
        /\ threads' = [threads EXCEPT ![t] = [@ EXCEPT !.pc = "fetching"]]
        /\ UNCHANGED <<storage_tree, columns, statistics, indexes, cardinality, table, executor,
                       transactions, clock, writes, outcome, scan>>

\* lines 535-539: the row is retrieved and the lock released at the end of the
\* loop's body; after the last row id Fetch returns
FetchRetrieve(t) ==
    /\ threads[t].pc = "fetching"
    /\ locks' = [locks EXCEPT !.shared = {h \in @ : h.thread # t}]
    /\ threads' = [threads EXCEPT ![t] =
                      IF threads[t].index < Len(threads[t].ids)
                      THEN [@ EXCEPT !.pc = "fetch", !.index = @ + 1]
                      ELSE [@ EXCEPT !.pc = "done"]]
    /\ outcome' = Outcome("Fetch", t, "ok", threads[t].ids[threads[t].index],
                          threads[t].index, 0)
    /\ UNCHANGED <<storage_tree, columns, statistics, indexes, cardinality, table, executor,
                   transactions, clock, writes, scan>>

\* lines 480-491, made by a thread
ScanBegin(t) ==
    /\ threads[t].pc = "idle"
    /\ scan.txn = 0
    /\ scan' = [NoScan EXCEPT !.txn = t, !.chunk = 1,
                              !.last_chunk = Len(storage_tree),
                              !.last_chunk_count = storage_tree[Len(storage_tree)].count,
                              !.writes = writes]
    /\ threads' = [threads EXCEPT ![t] = [@ EXCEPT !.pc = "scan"]]
    /\ outcome' = Outcome("InitializeScan", t, "ok", 0, 0, 0)
    /\ UNCHANGED <<storage_tree, columns, statistics, indexes, cardinality, table, executor,
                   transactions, clock, writes, locks>>

\* line 500: VersionChunk::Scan takes the shared lock of the current chunk
ScanLockChunk(t) ==
    /\ threads[t].pc = "scan"
    /\ scan.txn = t
    /\ SharedLockFree(locks, scan.chunk)
    /\ locks' = [locks EXCEPT !.shared = @ \cup {[chunk |-> scan.chunk, thread |-> t]}]
    /\ threads' = [threads EXCEPT ![t] = [@ EXCEPT !.pc = "scanning"]]
    /\ UNCHANGED <<storage_tree, columns, statistics, indexes, cardinality, table, executor,
                   transactions, clock, writes, outcome, scan>>

\* lines 500-518: the vector is read, the lock released and the cursor moved;
\* the scan is over when the cursor has left the last chunk
ScanUnlockChunk(t) ==
    /\ threads[t].pc = "scanning"
    /\ scan' = ScanIteration(storage_tree, columns, transactions, scan)
    /\ locks' = [locks EXCEPT !.shared = {h \in @ : h.thread # t}]
    /\ threads' = [threads EXCEPT ![t] = [@ EXCEPT !.pc = IF scan'.chunk = 0 THEN "done"
                                                          ELSE "scan"]]
    /\ outcome' = Outcome("Scan", t, "ok", 0, Len(scan'.result), 0)
    /\ UNCHANGED <<storage_tree, columns, statistics, indexes, cardinality, table, executor,
                   transactions, clock, writes>>

NextLocks ==
    \/ \E t \in TxnIds, n \in 1..MaxAppend : AppendVerify(t, MarkChunk(t, n))
    \/ \E t \in TxnIds : AppendLockTree(t)
    \/ \E t \in TxnIds : AppendLockChunk(t)
    \/ \E t \in TxnIds : AppendStep(t)
    \/ \E t \in TxnIds : AppendReturn(t)
    \/ \E t \in TxnIds, row_id \in RowIds :
          Budget(MaxDeletes) /\ DeleteLockChunk(t, <<row_id>>)
    \/ \E t \in TxnIds : DeleteReturn(t)
    \/ \E t \in TxnIds, row_id \in RowIds, column_ids \in ColumnIdLists :
          Budget(MaxDeletes) /\ UpdateLockChunk(t, <<row_id>>, column_ids)
    \/ \E t \in TxnIds : UpdateReturn(t)
    \/ \E t \in TxnIds, ids \in FetchBatches : FetchSort(t, ids)
    \/ \E t \in TxnIds : FetchLockChunk(t)
    \/ \E t \in TxnIds : FetchRetrieve(t)
    \/ \E t \in TxnIds : ScanBegin(t)
    \/ \E t \in TxnIds : ScanLockChunk(t)
    \/ \E t \in TxnIds : ScanUnlockChunk(t)

SpecLocks == InitConc /\ [][NextLocks]_vars

\* a step of a call that thread t has begun
ThreadStep(t) ==
    \/ AppendLockTree(t)
    \/ AppendLockChunk(t)
    \/ AppendStep(t)
    \/ AppendReturn(t)
    \/ DeleteReturn(t)
    \/ UpdateReturn(t)
    \/ FetchLockChunk(t)
    \/ FetchRetrieve(t)
    \/ ScanLockChunk(t)
    \/ ScanUnlockChunk(t)

\* the scheduler does not leave a thread that can take a step waiting for ever
SpecLocksFair == SpecLocks /\ \A t \in TxnIds : WF_vars(ThreadStep(t))

(***************************************************************************)
(* SpecEvents: a graph of events on the threads of the scheduler.  The     *)
(* first thread starts the events that have no dependencies, each of which *)
(* has tasks; every thread runs tasks.                                     *)
(***************************************************************************)
InitEvents ==
    /\ InitTable(Constructed(MarkCatalog), MarkCatalog)
    /\ transactions = [t \in TxnIds |-> NoTransaction]
    /\ clock = 1
    /\ \E g \in Graphs, tasks \in [EventIds -> 0..MaxTasks] :
          /\ \A e \in EventIds : TotalDependencies(g, e) = 0 => tasks[e] > 0
          /\ events = [e \in EventIds |->
                          Event(Ascending(g[e]), TotalDependencies(g, e), tasks[e])]
    /\ scheduler = [e \in EventIds |-> 0]
    /\ workers = [w \in WorkerIds |->
                     IF w = 1 THEN <<Frame("ScheduleEvents", 0, "loop")>> ELSE <<>>]

WorkerStep(w) ==
    \/ ScheduleEvents(w)
    \/ Schedule(w)
    \/ SetTasks(w)
    \/ \E e \in EventIds : ExecuteTask(w, e)
    \/ FinishTaskLoad(w)
    \/ FinishTaskIncrement(w)
    \/ CompleteDependencyIncrement(w)
    \/ CompleteDependencySchedule(w)
    \/ CompleteDependencyCheck(w)
    \/ FinishEvent(w)
    \/ Finish(w)

NextEvents ==
    \/ \E w \in WorkerIds : ScheduleEvents(w)
    \/ \E w \in WorkerIds : Schedule(w)
    \/ \E w \in WorkerIds : SetTasks(w)
    \/ \E w \in WorkerIds, e \in EventIds : ExecuteTask(w, e)
    \/ \E w \in WorkerIds : FinishTaskLoad(w)
    \/ \E w \in WorkerIds : FinishTaskIncrement(w)
    \/ \E w \in WorkerIds : CompleteDependencyIncrement(w)
    \/ \E w \in WorkerIds : CompleteDependencySchedule(w)
    \/ \E w \in WorkerIds : CompleteDependencyCheck(w)
    \/ \E w \in WorkerIds : FinishEvent(w)
    \/ \E w \in WorkerIds : Finish(w)

SpecEvents == InitEvents /\ [][NextEvents]_vars

\* every thread of the scheduler keeps running
SpecEventsFair == SpecEvents /\ \A w \in WorkerIds : WF_vars(WorkerStep(w))

(***************************************************************************)
(* Claims on the transactional core.                                       *)
(***************************************************************************)
ChunkRange(chunk) == chunk.start..(chunk.start + chunk.count - 1)

\* C1: after any sequence of completed Append, Update and Delete calls the
\* row ranges [start, start + count) of the chunks of the storage tree are
\* pairwise disjoint and their union is [0, cardinality)
C1_ChunkDensity ==
    /\ \A a, b \in 1..Len(storage_tree) :
          a # b => ChunkRange(storage_tree[a]) \cap ChunkRange(storage_tree[b]) = {}
    /\ UNION { ChunkRange(storage_tree[a]) : a \in 1..Len(storage_tree) }
          = 0..(cardinality - 1)

\* a table of two chunks, the second not empty, after a Delete or an Update
C1_Witness ==
    /\ Len(storage_tree) >= 2
    /\ storage_tree[Len(storage_tree)].count > 0
    /\ outcome.op \in {"Delete", "Update"}
    /\ outcome.result = "ok"

C6_UpdateConflictNoEffect ==
    [][(outcome'.op = "Update" /\ outcome'.result = "TransactionException") =>
          UNCHANGED <<storage_tree, columns, indexes, statistics, cardinality>>]_vars

\* a conflict on the second row of a batch whose first row was free
C6_Witness ==
    /\ outcome.op = "Update"
    /\ outcome.result = "TransactionException"
    /\ outcome.detail = 2

\* C7: of two concurrently active transactions that both update a row only
\* one succeeds: no active transaction has an update version on a row right
\* above the update version of a transaction that committed after it started
C7_FirstWriterWins ==
    \A t \in TxnIds, c \in 1..Len(storage_tree) :
      \A r \in 1..Len(storage_tree[c].version) :
        LET chain == storage_tree[c].version[r]
        IN  \A k \in 1..(Len(chain) - 1) :
               ~ /\ transactions[t].state = "active"
                 /\ chain[k].version_number = TransactionId(t)
                 /\ chain[k].flag = "UPDATE_TUPLE"
                 /\ chain[k + 1].flag = "UPDATE_TUPLE"
                 /\ chain[k + 1].version_number < TRANSACTION_ID_START
                 /\ chain[k + 1].version_number > transactions[t].start_time

\* C8: a Delete that raises an error has set the deleted flag of no row of
\* its batch and pushed no undo record
C8_DeleteErrorNoEffect ==
    [][(outcome'.op = "Delete" /\ outcome'.result = "TransactionException") =>
          UNCHANGED <<storage_tree, columns>>]_vars

\* C9: a scan by an active transaction never returns a value written by
\* another transaction that is uncommitted, rolled back or committed after
\* the scanning transaction started
InSnapshot(t, value) ==
    \/ value = Mark(0)
    \/ value = Mark(t)
    \/ \E u \in TxnIds :
          /\ value = Mark(u)
          /\ transactions[u].state = "committed"
          /\ transactions[u].commit_id < transactions[t].start_time

C9_SnapshotIsolation ==
    \A t \in TxnIds :
        transactions[t].state = "active" =>
            \A row \in VisibleRows(t) :
                \A column \in 1..NumCols : InSnapshot(t, row.tuple[column])

(***************************************************************************)
(* Claims on Append's failures (SpecCatalog).                              *)
(***************************************************************************)
\* C4: an Append that fails (column count mismatch, NOT NULL, CHECK or
\* UNIQUE violation, unsupported constraint, an index refusing the rows)
\* leaves the table unchanged: no chunk count, no column segment, no new
\* chunk or segment, no undo record, no statistics
C4_FailedAppendNoEffect ==
    [][(outcome'.op = "Append" /\ outcome'.result \notin {"ok", "empty"}) =>
          UNCHANGED <<storage_tree, columns, statistics, cardinality>>]_vars

\* an index refused the rows of an Append to a table that holds rows
C4_Witness ==
    /\ outcome.op = "Append"
    /\ outcome.result = "ConstraintException"
    /\ outcome.detail = 1
    /\ cardinality > 0

\* C5: after an Append that fails because an index refused the rows, every
\* index has the entries it had before the Append
C5_FailedAppendIndexes ==
    [][(outcome'.op = "Append" /\ outcome'.result = "ConstraintException"
            /\ outcome'.detail # 0) =>
          indexes' = indexes]_vars

\* the second index refused the rows after the first had taken them
C5_Witness ==
    /\ outcome.op = "Append"
    /\ outcome.result = "ConstraintException"
    /\ outcome.detail = 2
    /\ \E i \in 1..Len(indexes) : indexes[i].entries # {}

(***************************************************************************)
(* Claims on concurrent Appends (SpecConc).                                *)
(***************************************************************************)
\* the row ids a thread's Append has been assigned
AppendRange(t) ==
    IF threads[t].pc \in {"loop", "done"}
    THEN threads[t].row_start..(threads[t].row_start + threads[t].n - 1)
    ELSE {}

\* C3: the row-id ranges assigned to concurrent Appends are contiguous and
\* pairwise disjoint, and once no Append is under way they are dense: every
\* row of the table is a loaded row or lies in the range of exactly the
\* Append that wrote it, and no range reaches beyond the table
C3_AppendsSerialized ==
    /\ \A t, u \in TxnIds : t # u => AppendRange(t) \cap AppendRange(u) = {}
    /\ (\A t \in TxnIds : threads[t].pc # "loop") =>
          LET tail == storage_tree[Len(storage_tree)]
              rows == 0..(RowStart(tail) - 1)
          IN  /\ \A t \in TxnIds : AppendRange(t) \subseteq rows
              /\ \A row \in rows :
                    LET value == BaseValue(storage_tree, columns,
                                           GetChunk(storage_tree, row), 1, row)
                    IN  {t \in TxnIds : row \in AppendRange(t)}
                            = {t \in TxnIds : Mark(t) = value}

\* every thread has appended, one of them two rows across two chunks
C3_Witness ==
    /\ \A t \in TxnIds : threads[t].pc = "done"
    /\ \E t \in TxnIds :
          /\ threads[t].n = 2
          /\ GetChunk(storage_tree, threads[t].row_start)
                # GetChunk(storage_tree, threads[t].row_start + 1)

(***************************************************************************)
(* Claims on the scan cursor (SpecScan).                                   *)
(***************************************************************************)
\* C10: a scan visits no chunk after the tail chunk captured by
\* InitializeScan and in that chunk no row at or beyond the captured count,
\* so it returns no row appended after InitializeScan
C10_ScanBounded ==
    scan.txn # 0 =>
        /\ \A v \in scan.visited :
              /\ v.chunk <= scan.last_chunk
              /\ v.chunk = scan.last_chunk => v.id < scan.last_chunk_count
        /\ \A row \in scan.returned :
              row.row_id < storage_tree[scan.last_chunk].start + scan.last_chunk_count

\* an exhausted scan that returned rows, while the captured tail chunk grew
\* and a new chunk was allocated behind it
C10_Witness ==
    /\ scan.txn # 0
    /\ scan.chunk = 0
    /\ scan.returned # {}
    /\ Len(storage_tree) > scan.last_chunk
    /\ storage_tree[scan.last_chunk].count > scan.last_chunk_count

\* C11: with no writer since InitializeScan, the concatenation of the results
\* of the Scan calls of an exhausted scan holds the rows visible to the
\* scanning transaction, each exactly once and in increasing row-id order
C11_ScanComplete ==
    (/\ scan.txn # 0
     /\ scan.chunk = 0
     /\ scan.writes = writes
     /\ transactions[scan.txn].state = "active")
        => /\ \A i \in 1..Len(scan.log), j \in 1..Len(scan.log) :
                 i < j => scan.log[i].row_id < scan.log[j].row_id
           /\ Range(scan.log) = VisibleRows(scan.txn)

\* an exhausted scan without a writer that returned rows of two chunks and
\* passed over a row the transaction does not see
C11_Witness ==
    /\ scan.txn # 0
    /\ scan.chunk = 0
    /\ scan.writes = writes
    /\ transactions[scan.txn].state = "active"
    /\ Len(scan.log) >= 2
    /\ Len(scan.log) < cardinality
    /\ \E i \in 1..Len(scan.log), j \in 1..Len(scan.log) :
          GetChunk(storage_tree, scan.log[i].row_id)
              # GetChunk(storage_tree, scan.log[j].row_id)

(***************************************************************************)
(* Claims on the layout of columns and chunks.                             *)
(***************************************************************************)
\* C12: after any sequence of completed Appends the segments of every column
\* are adjacent, the first starting at row 0, and their ranges cover
\* [0, cardinality) without overlap: every column holds one value per row
C12_SegmentDensity ==
    \A i \in 1..NumCols :
        /\ columns[i][1].start = 0
        /\ \A k \in 1..(Len(columns[i]) - 1) :
              columns[i][k].start + columns[i][k].count = columns[i][k + 1].start
        /\ columns[i][Len(columns[i])].start + columns[i][Len(columns[i])].count
              = cardinality
        /\ \A k \in 1..Len(columns[i]) : Len(columns[i][k].data) = columns[i][k].count

\* a column whose values spilled into a second segment, next to a column
\* that still has one segment
C12_Witness ==
    /\ \E i \in 1..NumCols :
          /\ Len(columns[i]) = 2
          /\ columns[i][1].count > 0
          /\ columns[i][2].count > 0
    /\ \E i \in 1..NumCols : Len(columns[i]) = 1
    /\ outcome.op = "Append"
    /\ outcome.result = "ok"

\* C13: every chunk holds at most STORAGE_CHUNK_SIZE rows and every chunk but
\* the tail holds exactly STORAGE_CHUNK_SIZE; an Append fills the tail before
\* it allocates a chunk, so outside a running Append a tail that is not the
\* only chunk holds at least one row
C13_ChunksFilled ==
    /\ \A c \in 1..Len(storage_tree) : storage_tree[c].count <= STORAGE_CHUNK_SIZE
    /\ \A c \in 1..(Len(storage_tree) - 1) : storage_tree[c].count = STORAGE_CHUNK_SIZE
    /\ (\A t \in TxnIds : threads[t].pc # "loop")
          => (Len(storage_tree) > 1 => storage_tree[Len(storage_tree)].count > 0)

\* an Append of more rows than the tail had room for has returned: the tail
\* it found is full and the rest is in the chunk it allocated
C13_Witness ==
    /\ outcome.op = "Append"
    /\ outcome.result = "ok"
    /\ outcome.count = 2
    /\ GetChunk(storage_tree, outcome.row_start)
          # GetChunk(storage_tree, outcome.row_start + 1)
    /\ storage_tree[GetChunk(storage_tree, outcome.row_start)].start < outcome.row_start
    /\ \A t \in TxnIds : threads[t].pc # "loop"

(***************************************************************************)
(* Claims on rollback and statistics (Spec).                               *)
(***************************************************************************)
\* the rows appended by transactions that rolled back
RolledBackRows ==
    { r \in RowIds :
        LET c == GetChunk(storage_tree, r)
        IN  \E t \in TxnIds :
               /\ storage_tree[c].owner[r - storage_tree[c].start + 1] = TransactionId(t)
               /\ transactions[t].state = "aborted" }

\* C14: a row appended by a transaction that rolled back is returned to no
\* transaction, and its row id stays allocated: a later Append gets row ids
\* above it
C14_RolledBackAppend ==
    \A r \in RolledBackRows :
        /\ \A u \in TxnIds : transactions[u].state = "active" => ScanRowId(u, r) = <<>>
        /\ (outcome.op = "Append" /\ outcome.result = "ok") => r < outcome.row_start

\* a transaction appended into two chunks and rolled back, and another
\* transaction has started since
C14_Witness ==
    /\ \E r \in RolledBackRows, q \in RolledBackRows :
          GetChunk(storage_tree, r) # GetChunk(storage_tree, q)
    /\ outcome.op = "Start"
    /\ transactions[outcome.txn].state = "active"

\* the recorded range of the later statistics holds that of the earlier
StatisticsWidened(old, new) ==
    /\ old.min # NullValue => (new.min # NullValue /\ new.min <= old.min)
    /\ old.max # NullValue => (new.max # NullValue /\ new.max >= old.max)

\* C15: no step raises a column's recorded min or lowers its recorded max,
\* and after a successful Append the recorded min and max of every column
\* bound the values of the appended rows
C15_StatisticsMonotonic ==
    [][\A i \in 1..NumCols :
          /\ StatisticsWidened(statistics[i], statistics'[i])
          /\ (writes' # writes /\ outcome'.op = "Append" /\ outcome'.result = "ok")
                => \A r \in outcome'.row_start..(outcome'.row_start + outcome'.count - 1) :
                      LET v == BaseValue(storage_tree', columns',
                                         GetChunk(storage_tree', r), i, r)
                      IN  v # NullValue
                            => /\ statistics'[i].min # NullValue
                               /\ statistics'[i].min <= v
                               /\ v <= statistics'[i].max]_vars

\* after an Append of higher values and an Update the statistics still hold
\* the values of the rows loaded first
C15_Witness ==
    /\ outcome.op = "Update"
    /\ outcome.result = "ok"
    /\ cardinality > 1
    /\ \A i \in 1..NumCols : statistics[i].min = 0 /\ statistics[i].max = 2

(***************************************************************************)
(* Claims on constraints and indexes (SpecCatalog).                        *)
(***************************************************************************)
\* the table has a UNIQUE constraint over more than one key column
MultiColumnUnique ==
    \E k \in 1..Len(table.bound_constraints) :
        /\ table.bound_constraints[k].type = "UNIQUE"
        /\ Cardinality(table.bound_constraints[k].keys) > 1

\* C16: an Append of a chunk of rows of the table's shape, or an Update, on a
\* table with a UNIQUE constraint over more than one key column is rejected
\* with NotImplementedError
C16_MultiUniqueRejected ==
    (/\ MultiColumnUnique
     /\ outcome.op \in {"Append", "Update"}
     /\ outcome.result \notin {"empty", "CatalogException"})
        => outcome.result = "NotImplementedException"

\* what the claim expects of one NOT NULL or CHECK constraint in an Update
\* of the columns column_ids with the vectors updates
UpdatedKeys(constraint, column_ids) == constraint.keys \cap Range(column_ids)

UpdateVector(column_ids, updates, column) ==
    updates[CHOOSE i \in 1..Len(column_ids) : column_ids[i] = column]

ExpectedVerdict(constraint, column_ids, updates) ==
    IF constraint.type = "NOT_NULL"
    THEN IF /\ constraint.index \in Range(column_ids)
            /\ NullValue \in Range(UpdateVector(column_ids, updates, constraint.index))
         THEN "ConstraintException" ELSE "ok"
    ELSE IF constraint.type = "CHECK"
    THEN IF UpdatedKeys(constraint, column_ids) = {} THEN "ok"
         ELSE IF UpdatedKeys(constraint, column_ids) # constraint.keys
         THEN "NotImplementedException"
         ELSE IF \E r \in 1..Len(updates[1]) :
                    /\ \A c \in constraint.keys :
                          UpdateVector(column_ids, updates, c)[r] # NullValue
                    /\ \E c \in constraint.keys :
                          UpdateVector(column_ids, updates, c)[r] = 0
         THEN "ConstraintException" ELSE "ok"
    ELSE "ok"

\* the first NOT NULL or CHECK constraint of the table expected to reject
\* the Update, 0 for none; constraints behind a UNIQUE are left out
FirstRejecting(column_ids, updates) ==
    LET cs == table.bound_constraints
        rejecting == { k \in 1..Len(cs) :
                         /\ ExpectedVerdict(cs[k], column_ids, updates) # "ok"
                         /\ \A j \in 1..k : cs[j].type \in {"NOT_NULL", "CHECK"} }
    IN  IF rejecting = {} THEN 0
        ELSE CHOOSE k \in rejecting : \A j \in rejecting : k <= j

C18_ChangesUnderLock ==
    [][\A c \in 1..Len(storage_tree) :
          (\/ storage_tree'[c].count # storage_tree[c].count
           \/ storage_tree'[c].version # storage_tree[c].version
           \/ storage_tree'[c].deleted # storage_tree[c].deleted)
            => \E t \in TxnIds :
                  /\ threads'[t] # threads[t]
                  /\ [chunk |-> c, thread |-> t] \in locks.held]_vars

\* the head version of the row is an uncommitted one of another transaction
UncommittedHeadOfOther(t, row_id) ==
    LET c == GetChunk(storage_tree, row_id)
        chain == storage_tree[c].version[row_id - storage_tree[c].start + 1]
    IN  /\ chain # <<>>
        /\ Head(chain).version_number >= TRANSACTION_ID_START
        /\ Head(chain).version_number # TransactionId(t)

\* C19: a Delete or an Update raises a transaction conflict if and only if
\* the head version of one of its rows exists, is uncommitted and is not the
\* caller's own
C19_ConflictIff ==
    [][\A t \in TxnIds, ids \in Batches :
          /\ (Len(ids) > 0 /\ DoDelete(t, ids))
                => (outcome'.result = "TransactionException"
                      <=> \E k \in 1..Len(ids) : UncommittedHeadOfOther(t, ids[k]))
          /\ \A column_ids \in ColumnIdLists :
                (Len(ids) > 0
                   /\ DoUpdate(t, ids, column_ids, MarkUpdates(t, column_ids, Len(ids))))
                  => (outcome'.result = "TransactionException"
                        <=> \E k \in 1..Len(ids) : UncommittedHeadOfOther(t, ids[k]))]_vars

\* an Update went through on a row whose head version is a committed one of
\* another transaction, next to a row the caller itself had changed
C19_Witness ==
    /\ outcome.op = "Update"
    /\ outcome.result = "ok"
    /\ \E c \in 1..Len(storage_tree) :
          \E r \in 1..Len(storage_tree[c].version) :
              /\ Len(storage_tree[c].version[r]) = 2
              /\ storage_tree[c].version[r][1].version_number = TransactionId(outcome.txn)
              /\ storage_tree[c].version[r][2].version_number < TRANSACTION_ID_START

\* the indexes UpdateIndexes calls op on, and their positions in its calls
CalledIndexes(calls, op) ==
    { calls[j].index : j \in { n \in 1..Len(calls) : calls[n].call = op } }

\* C20: UpdateIndexes calls no index that the update does not affect; when
\* the Append of the affected index k fails, the affected indexes before k
\* get a Delete after the Appends, no index after k is called, the Update
\* fails with a constraint error, pushes no undo record and changes no base
\* data, and every index holds the entries it had
C20_UpdateIndexes ==
    [][\A ids \in {b \in Batches : outcome'.op = "Update" /\ Len(b) = outcome'.count},
          column_ids \in ColumnIdLists :
          \A updates \in UpdateChunks(column_ids, Len(ids)) :
              (/\ Len(ids) > 0
               /\ DoUpdate(1, ids, column_ids, updates)
               /\ outcome'.result = "ok" \/ outcome'.detail # 0)
                => LET calls == UpdateIndexes(indexes, column_ids, updates, ids).calls
                       k == outcome'.detail
                       affected == { i \in 1..Len(indexes) :
                                       indexes[i].column \in Range(column_ids) }
                   IN  /\ \A j \in 1..Len(calls) : calls[j].index \in affected
                       /\ \A i \in (1..Len(indexes)) \ affected : indexes'[i] = indexes[i]
                       /\ k # 0 =>
                             /\ outcome'.result = "ConstraintException"
                             /\ k \in affected
                             /\ CalledIndexes(calls, "Append")
                                   = { i \in affected : i <= k }
                             /\ CalledIndexes(calls, "Delete")
                                   = { i \in affected : i < k }
                             /\ \A a, d \in 1..Len(calls) :
                                   (calls[a].call = "Append" /\ calls[d].call = "Delete")
                                     => a < d
                             /\ indexes' = indexes
                             /\ storage_tree' = storage_tree
                             /\ columns' = columns
                             /\ statistics' = statistics
                       /\ k = 0 => CalledIndexes(calls, "Delete") = {}]_vars

\* an Update of both columns failed at the second index after the first
\* index had taken the new key
C20_Witness ==
    /\ outcome.op = "Update"
    /\ outcome.result = "ConstraintException"
    /\ outcome.detail = 2
    /\ Len(indexes) = 2
    /\ \A i \in 1..Len(indexes) : Cardinality(indexes[i].entries) = 1

(***************************************************************************)
(* Claims on the undo records of Update and on the layout of segments.     *)
(***************************************************************************)
\* the rows whose version chain the step has changed
ChainChanged ==
    { r \in RowIds :
        LET c == GetChunk(storage_tree, r)
        IN  storage_tree'[c].version[r - storage_tree[c].start + 1]
              # storage_tree[c].version[r - storage_tree[c].start + 1] }

\* C21: a successful Update pushes exactly one undo node for every row of
\* its batch and none for another row, and the node holds the row's values
\* as they were before the Update wrote any of them
C21_UpdatePreImages ==
    [][(outcome'.op = "Update" /\ outcome'.result = "ok" /\ writes' # writes)
          => /\ Cardinality(ChainChanged) = outcome'.count
             /\ \A r \in ChainChanged :
                   LET c == GetChunk(storage_tree, r)
                       slot == r - storage_tree[c].start + 1
                   IN  storage_tree'[c].version[slot]
                         = <<VersionInfo(TransactionId(outcome'.txn), "UPDATE_TUPLE",
                                         BaseTuple(storage_tree, columns, c, r))>>
                              \o storage_tree[c].version[slot]]_vars

\* an Update of two rows went through and the pre-image of each of them
\* differs from what the row holds now
C21_Witness ==
    /\ outcome.op = "Update"
    /\ outcome.result = "ok"
    /\ outcome.count = 2
    /\ \E r \in RowIds, q \in RowIds :
          /\ r # q
          /\ \A x \in {r, q} :
                LET c == GetChunk(storage_tree, x)
                    chain == storage_tree[c].version[x - storage_tree[c].start + 1]
                IN  /\ chain # <<>>
                    /\ Head(chain).version_number = TransactionId(outcome.txn)
                    /\ Head(chain).flag = "UPDATE_TUPLE"
                    /\ Head(chain).tuple_data # BaseTuple(storage_tree, columns, c, x)

\* C22: the column pointers of every chunk designate the chunk's first row:
\* the start of the pointer's segment plus the pointer's offset, counted in
\* elements, is the chunk's start
C22_ColumnPointers ==
    \A c \in 1..Len(storage_tree), i \in 1..NumCols :
        LET p == storage_tree[c].columns[i]
        IN  /\ p.segment \in 1..Len(columns[i])
            /\ columns[i][p.segment].start + p.offset = storage_tree[c].start

\* a chunk that holds rows and was created when a column's tail segment was
\* exactly full: its pointer stands at the end of that segment
C22_Witness ==
    \E c \in 2..Len(storage_tree), i \in 1..NumCols :
        LET p == storage_tree[c].columns[i]
        IN  /\ storage_tree[c].count > 0
            /\ p.offset = columns[i][p.segment].count
            /\ columns[i][p.segment].offset = BLOCK_SIZE
            /\ p.segment < Len(columns[i])

\* C23: in every segment of every column the byte offset is the count times
\* the size of the column's type and does not exceed BLOCK_SIZE; a segment
\* gets a successor only when it has no room for another value, and the
\* successor starts where it ends and holds the values that did not fit
C23_SegmentsBounded ==
    \A i \in 1..NumCols :
        /\ \A k \in 1..Len(columns[i]) :
              /\ columns[i][k].offset = columns[i][k].count * GetTypeIdSize(types[i])
              /\ columns[i][k].offset <= BLOCK_SIZE
        /\ \A k \in 1..(Len(columns[i]) - 1) :
              /\ BLOCK_SIZE - columns[i][k].offset < GetTypeIdSize(types[i])
              /\ columns[i][k + 1].start = columns[i][k].start + columns[i][k].count
              /\ columns[i][k + 1].count > 0

\* a thread's Append has returned after it filled a segment to the last
\* byte and put the rest of its values into a new segment
C23_Witness ==
    /\ \E t \in TxnIds : threads[t].pc = "done" /\ threads[t].n = 2
    /\ \E i \in 1..NumCols :
          /\ Len(columns[i]) = 2
          /\ columns[i][1].offset = BLOCK_SIZE
          /\ columns[i][2].count = 1

(***************************************************************************)
(* Claims on the end of a scan (SpecScanFair).                             *)
(***************************************************************************)
\* C24: a Scan call returns an empty result only when the scan is exhausted,
\* every call on an exhausted scan returns an empty result, and a scan whose
\* transaction stays active is exhausted after finitely many calls
C24_ScanExhaustion ==
    /\ [][(outcome'.op = "Scan" /\ scan' # scan)
            => /\ scan'.result = <<>> => scan'.chunk = 0
               /\ scan.chunk = 0 => (scan'.result = <<>> /\ scan'.chunk = 0)]_vars
    /\ (scan.txn # 0)
          ~> (scan.chunk = 0 \/ transactions[scan.txn].state # "active")

\* the scan passed over a first chunk none of whose rows the transaction
\* sees, returned a row of the next chunk, and its last call came back empty
C24_Witness ==
    /\ scan.txn # 0
    /\ scan.chunk = 0
    /\ outcome.op = "Scan"
    /\ outcome.count = 0
    /\ scan.log # <<>>
    /\ \A k \in 1..Len(scan.log) : scan.log[k].row_id >= STORAGE_CHUNK_SIZE
    /\ storage_tree[1].count = STORAGE_CHUNK_SIZE

(***************************************************************************)
(* Claims on the locks.                                                    *)
(***************************************************************************)
\* the locks thread t holds
ChunkLocksOf(t) == {h \in locks.held \cup locks.shared : h.thread = t}

\* a thread inside a call
Busy(t) == threads[t].pc \notin {"idle", "done"}

\* C25: no interleaving of Append, Delete, Update, Scan and Fetch calls
\* deadlocks.  Only a thread inside Append holds node_lock, and it took it
\* before the tail chunk's lock; no thread holds two chunk locks; a thread
\* that waits for node_lock holds no lock, and a thread that waits for a chunk
\* lock holds at most node_lock; a thread that holds a chunk lock outside
\* Append holds nothing else and waits for nothing.  Under fair scheduling
\* every call that has begun returns.
C25_NoDeadlock ==
    /\ [](\A t \in TxnIds :
            /\ locks.node_lock = t => threads[t].pc \in {"tree_locked", "loop"}
            /\ threads[t].pc \in {"tree_locked", "loop"} => locks.node_lock = t
            /\ Cardinality(ChunkLocksOf(t)) <= 1
            /\ threads[t].pc \in {"idle", "done", "verified", "tree_locked", "fetch", "scan"}
                  => ChunkLocksOf(t) = {}
            /\ threads[t].pc \in {"loop", "deleting", "updating", "fetching", "scanning"}
                  => Cardinality(ChunkLocksOf(t)) = 1)
    /\ \A t \in TxnIds : Busy(t) ~> ~Busy(t)

\* an Append that holds node_lock waits for the tail chunk's lock, which a
\* thread inside Delete, Update, Fetch or Scan holds
C25_Witness ==
    \E t, u \in TxnIds :
        /\ threads[t].pc = "tree_locked"
        /\ locks.node_lock = t
        /\ threads[u].pc \in {"deleting", "updating", "fetching", "scanning"}
        /\ \E h \in ChunkLocksOf(u) : h.chunk = threads[t].last_chunk
(***************************************************************************)
(* Claims on the events.                                                   *)
(***************************************************************************)
\* the events that e waits for
Dependencies(e) == {c \in EventIds : e \in Range(events[c].parents)}

\* C26: whatever the interleaving of the FinishTask and CompleteDependency
\* calls, an event runs Schedule at most once and only when all its
\* dependencies have finished, and runs Finish exactly once, only after
\* Schedule and when all the tasks it scheduled have finished; the counters
\* finished_dependencies and finished_tasks never pass total_dependencies and
\* total_tasks
C26_EventOrder ==
    /\ [](\A e \in EventIds :
            /\ events[e].schedules <= 1
            /\ events[e].finishes <= 1
            /\ events[e].schedules = 1
                  => /\ events[e].finished_dependencies = events[e].total_dependencies
                     /\ \A c \in Dependencies(e) : events[c].finished
            /\ events[e].finishes = 1
                  => /\ events[e].schedules = 1
                     /\ events[e].total_tasks = events[e].tasks
                     /\ events[e].finished_tasks = events[e].total_tasks
                     /\ scheduler[e] = 0
            /\ events[e].finished_dependencies <= events[e].total_dependencies
            /\ events[e].finished_tasks <= events[e].total_tasks)
    /\ \A e \in EventIds : <>(events[e].finishes = 1)

\* two events with two tasks each have finished on different threads, and
\* the event without tasks that waits for both has run Schedule and Finish
C26_Witness ==
    /\ \A e \in EventIds : events[e].finishes = 1
    /\ events[1].tasks = MaxTasks
    /\ events[2].tasks = MaxTasks
    /\ Dependencies(3) = {1, 2}
    /\ Dependencies(2) = {}
    /\ events[3].tasks = 0
    /\ events[3].schedules = 1
====
